---- MODULE Spec2Model ----
(***************************************************************************)
(* The input pipeline of the JavaScript Entity Component System:           *)
(* BindingMap (src/src/input/BindingMap.js), the key-sequence ComboTracker *)
(* (src/src/input/ComboTracker.js), the step-based ComboTracker            *)
(* (src/unnamed/part_005), KeyBuffer (src/unnamed/part_006) and the        *)
(* InputManager that wires them (src/unnamed/part_007).                    *)
(*                                                                         *)
(* Every object is a record held in the variable named after the           *)
(* InputManager field that owns it; a method is an operator from the       *)
(* object (and its arguments) to the object after the call.  JavaScript    *)
(* objects with optional properties are records whose DOMAIN holds the     *)
(* properties that are present.  Numbers that are fractions in the source  *)
(* (values, sensitivity, deadzone) are counted in hundredths.              *)
(***************************************************************************)
EXTENDS Integers, Sequences, FiniteSets, TLC

VARIABLES
    bindingMap,      \* InputManager.bindingMap   (a BindingMap, or Null)
    keyBuffer,       \* InputManager.keyBuffer    (a KeyBuffer, or Null)
    comboTracker,    \* InputManager.comboTracker (either ComboTracker class, or Null)
    contextStack,    \* InputManager.contextStack
    currentContext,  \* InputManager.currentContext
    actionStates,    \* InputManager.actionStates (ordered Map name -> state)
    frameData,       \* InputManager.frameData
    config,          \* InputManager.config
    initializing,    \* whether an initialize() call is waiting for loadConfig
                     \* (where calls may overlap: how many are)
    isInitialized,   \* InputManager.isInitialized
    isPaused,        \* InputManager.isPaused
    deviceAdapters,  \* InputManager.deviceAdapters: deviceType -> adapter
    now,             \* the host clock: performance.now() / Date.now() / timers
    events,          \* what the last call emitted on the event bus, in order
    last,            \* the last call: its name, arguments, result, trace
    fed,             \* history: the inputs given to a ComboTracker, with their times
                     \* (or what else a specification says it records)
    registered,      \* history: the ids of the registerCombo calls, in call order
    eventManager     \* the EventManager (src/unnamed/part_003) when it is the
                     \* object under study, or Null

vars == <<bindingMap, keyBuffer, comboTracker, contextStack, currentContext,
          actionStates, frameData, config, initializing, isInitialized, isPaused,
          deviceAdapters, now, events, last, fed, registered, eventManager>>

managerVars == <<contextStack, currentContext, actionStates, frameData, config,
                 initializing, isInitialized, isPaused, deviceAdapters>>

----------------------------------------------------------------------------
(* JavaScript values *)

Null == [null |-> TRUE]

\* the string a template literal or Array.join prints for a missing property
Undefined == "undefined"

Has(o, f) == f \in DOMAIN o

\* o.f || dflt, for a property that is a non-empty string or a non-zero
\* number when present
OrElse(o, f, dflt) == IF Has(o, f) THEN o[f] ELSE dflt

\* o.f || 0 for a numeric property
Num(o, f) == IF Has(o, f) THEN o[f] ELSE 0

Abs(x) == IF x < 0 THEN -x ELSE x

Min(a, b) == IF a < b THEN a ELSE b

\* a * b for two numbers counted in hundredths
Times(a, b) == (a * b) \div 100

Range(s) == {s[i] : i \in DOMAIN s}

RECURSIVE Join(_, _)
\* Array.prototype.join
Join(parts, sep) ==
    IF parts = <<>> THEN ""
    ELSE IF Len(parts) = 1 THEN parts[1]
    ELSE parts[1] \o sep \o Join(Tail(parts), sep)

\* an insertion-ordered Map: a sequence of [k, v] entries with distinct keys
MapHas(m, k) == \E i \in DOMAIN m : m[i].k = k

MapIndex(m, k) == CHOOSE i \in DOMAIN m : m[i].k = k

MapGet(m, k) == m[MapIndex(m, k)].v

\* Map.set keeps the position of a key that is already present
MapSet(m, k, v) ==
    IF MapHas(m, k) THEN [m EXCEPT ![MapIndex(m, k)].v = v]
    ELSE Append(m, [k |-> k, v |-> v])

MapDelete(m, k) == SelectSeq(m, LAMBDA e : e.k # k)

MapKeys(m) == [i \in DOMAIN m |-> m[i].k]

MapValues(m) == [i \in DOMAIN m |-> m[i].v]

\* Array.prototype.reverse
Reverse(s) == [i \in DOMAIN s |-> s[Len(s) + 1 - i]]

----------------------------------------------------------------------------
(* What the InputManager constructor sets: src/unnamed/part_007 *)

NewFrameData == [timestamp |-> 0, deltaTime |-> 0, frameNumber |-> 0]

DefaultConfig ==
    [enableDebugOverlay |-> FALSE, bufferSize |-> 32, comboTimeout |-> 500,
     analogDeadzone |-> 10, analogSensitivity |-> 100]

----------------------------------------------------------------------------
(* BindingMap: src/src/input/BindingMap.js *)

\* the sensitivity and deadzone a binding gets when it names none
DefaultSensitivity == 100

DefaultDeadzone == 10

\* an object without properties, {}
EmptyObject == <<>>

\* null, "" and undefined are all falsy where a context name is tested
NoContext == ""

\* A binding string is kept as its ':'-separated parts, each the sequence of
\* its '+'-separated tokens: "ctrl+c" is << <<"ctrl", "c">> >> and
\* "gamepad:button_a" is << <<"gamepad">>, <<"button_a">> >>.
BindingString(parts) == [string |-> parts]

IsString(binding) == Has(binding, "string")

ModifierTokens == {"ctrl", "control", "shift", "alt", "meta", "cmd"}

\* Array.prototype.sort on modifier names
SortedNames == <<"alt", "control", "ctrl", "meta", "shift">>

\* String.prototype.toLowerCase (trim changes none of the model's tokens)
toLowerCase(s) ==
    CASE s = "C" -> "c"
      [] s = "W" -> "w"
      [] s = "Ctrl" -> "ctrl"
      [] s = "Shift" -> "shift"
      [] OTHER -> s

RECURSIVE SplitPlus(_)
\* bindingString.split('+') for a string of several ':'-separated parts
SplitPlus(parts) ==
    IF Len(parts) = 1 THEN parts[1]
    ELSE LET head == parts[1]
             rest == SplitPlus(Tail(parts))
         IN SubSeq(head, 1, Len(head) - 1)
              \o <<head[Len(head)] \o ":" \o rest[1]>>
              \o Tail(rest)

parseBindingString(bindingString) ==
    LET parts == bindingString
        deviceType == IF Len(parts) = 2 THEN Join(parts[1], "+") ELSE "keyboard"
        keys == IF Len(parts) = 2 THEN parts[2] ELSE SplitPlus(parts)
        normalizedKeys == [i \in DOMAIN keys |-> toLowerCase(keys[i])]
        flags == {normalizedKeys[i] : i \in DOMAIN normalizedKeys} \cap ModifierTokens
        names == {IF f = "cmd" THEN "meta" ELSE f : f \in flags}
        others == SelectSeq(normalizedKeys, LAMBDA t : t \notin ModifierTokens)
        mainKey == IF others = <<>> THEN "" ELSE others[Len(others)]
    IN [deviceType |-> deviceType,
        inputType |-> IF deviceType = "keyboard" THEN "key" ELSE "button",
        key |-> mainKey,
        modifiers |-> [m \in names |-> TRUE],
        conditions |-> EmptyObject,
        sensitivity |-> DefaultSensitivity,
        deadzone |-> DefaultDeadzone]

normalizeBinding(binding) ==
    IF IsString(binding) THEN parseBindingString(binding.string)
    ELSE [deviceType |-> OrElse(binding, "deviceType", "keyboard"),
          inputType |-> OrElse(binding, "inputType", "key"),
          \* binding.key || binding.input: the empty key is falsy
          key |-> IF Has(binding, "key") /\ binding.key # "" THEN binding.key
                  ELSE OrElse(binding, "input", Undefined),
          modifiers |-> OrElse(binding, "modifiers", EmptyObject),
          conditions |-> OrElse(binding, "conditions", EmptyObject),
          sensitivity |-> IF Has(binding, "sensitivity") /\ binding.sensitivity # 0
                          THEN binding.sensitivity ELSE DefaultSensitivity,
          deadzone |-> IF Has(binding, "deadzone") /\ binding.deadzone # 0
                       THEN binding.deadzone ELSE DefaultDeadzone]

\* Object.keys(modifiers).filter(key => modifiers[key]).sort()
ActiveModifierKeys(modifiers) ==
    SelectSeq(SortedNames, LAMBDA m : m \in DOMAIN modifiers /\ modifiers[m])

generateBindingKey(bindingConfig) ==
    LET parts == <<bindingConfig.deviceType, bindingConfig.inputType,
                   IF bindingConfig.key = Undefined THEN "" ELSE bindingConfig.key>>
        modifierKeys == ActiveModifierKeys(bindingConfig.modifiers)
    IN Join(IF Len(modifierKeys) > 0
            THEN Append(parts, Join(modifierKeys, "+"))
            ELSE parts, ":")

generateInputKeys(inputData) ==
    LET base == Join(<<OrElse(inputData, "deviceType", Undefined),
                       OrElse(inputData, "inputType", Undefined),
                       OrElse(inputData, "key", Undefined)>>, ":")
        modifierKeys == IF Has(inputData, "modifiers")
                        THEN ActiveModifierKeys(inputData.modifiers)
                        ELSE <<>>
    IN IF Len(modifierKeys) > 0
       THEN <<base, base \o ":" \o Join(modifierKeys, "+")>>
       ELSE <<base>>

checkConditions(inputData, conditions) ==
    /\ ~(Has(conditions, "minValue")
         /\ Abs(Num(inputData, "value")) < conditions.minValue)
    /\ ~(Has(conditions, "maxValue")
         /\ Abs(Num(inputData, "value")) > conditions.maxValue)
    /\ ~(Has(conditions, "inputType")
         /\ OrElse(inputData, "type", Undefined) # conditions.inputType)

matchesBinding(inputData, actionConfig) ==
    LET inputModifiers == OrElse(inputData, "modifiers", EmptyObject)
        requiredModifiers == actionConfig.modifiers
    IN /\ OrElse(inputData, "deviceType", Undefined) = actionConfig.deviceType
       /\ OrElse(inputData, "inputType", Undefined) = actionConfig.inputType
       /\ OrElse(inputData, "key", Undefined) = actionConfig.key
       /\ \A modifier \in DOMAIN requiredModifiers :
            requiredModifiers[modifier] =>
                (modifier \in DOMAIN inputModifiers /\ inputModifiers[modifier])
       /\ checkConditions(inputData, actionConfig.conditions)

\* The action carries the input's type, value and timestamp; timestamp 0
\* stands for a missing one (both are falsy where the manager reads it).
createActionFromBinding(inputData, actionConfig) ==
    LET raw == Num(inputData, "value")
        scaled == IF actionConfig.sensitivity # 100
                  THEN Times(raw, actionConfig.sensitivity) ELSE raw
        value == IF Abs(scaled) < actionConfig.deadzone THEN 0 ELSE scaled
    IN [name |-> actionConfig.actionName,
        type |-> OrElse(inputData, "type", Undefined),
        value |-> value,
        timestamp |-> Num(inputData, "timestamp"),
        deviceType |-> OrElse(inputData, "deviceType", Undefined)]

NewBindingMap ==
    [bindings |-> <<[k |-> "default", v |-> <<>>]>>,
     activeContext |-> "default",
     bindingCache |-> EmptyObject,
     cacheVersion |-> 0]

\* clearCache as it would be if it neither emptied the cache nor bumped the
\* version
clearCacheKeepsEntries(bm) == bm

clearCache(bm) ==
    [bm EXCEPT !.bindingCache = EmptyObject, !.cacheVersion = @ + 1]

addBinding(bm, context, actionName, binding, updateCache) ==
    LET bindingConfig == normalizeBinding(binding)
        bindingKey == generateBindingKey(bindingConfig)
        contextMap == IF MapHas(bm.bindings, context)
                      THEN MapGet(bm.bindings, context) ELSE <<>>
        actions == IF MapHas(contextMap, bindingKey)
                   THEN MapGet(contextMap, bindingKey) ELSE <<>>
        actionConfig == [actionName |-> actionName] @@ bindingConfig
        added == [bm EXCEPT !.bindings =
                    MapSet(bm.bindings, context,
                           MapSet(contextMap, bindingKey,
                                  Append(actions, actionConfig)))]
    IN IF updateCache THEN clearCache(added) ELSE added

\* actions.findIndex(action => action.actionName === actionName), 0 for -1
FindIndex(actions, actionName) ==
    IF \E i \in DOMAIN actions : actions[i].actionName = actionName
    THEN CHOOSE i \in DOMAIN actions :
            /\ actions[i].actionName = actionName
            /\ \A j \in 1..(i - 1) : actions[j].actionName # actionName
    ELSE 0

\* actions.splice(index, 1)
Splice(actions, index) ==
    SubSeq(actions, 1, index - 1) \o SubSeq(actions, index + 1, Len(actions))

RECURSIVE RemoveAction(_, _)
\* the loop of removeBinding over every binding key of a context
RemoveAction(contextMap, actionName) ==
    IF contextMap = <<>> THEN <<>>
    ELSE LET entry == contextMap[1]
             filteredActions ==
                 SelectSeq(entry.v, LAMBDA a : a.actionName # actionName)
             rest == RemoveAction(Tail(contextMap), actionName)
         IN IF filteredActions = <<>> THEN rest
            ELSE <<[k |-> entry.k, v |-> filteredActions]>> \o rest

removeBinding(bm, context, actionName, binding) ==
    IF ~MapHas(bm.bindings, context) THEN bm
    ELSE
      LET contextMap == MapGet(bm.bindings, context)
          removed ==
            IF binding # Null
            THEN LET bindingKey == generateBindingKey(normalizeBinding(binding))
                     actions == IF MapHas(contextMap, bindingKey)
                                THEN MapGet(contextMap, bindingKey) ELSE <<>>
                     index == FindIndex(actions, actionName)
                 IN IF index = 0 THEN contextMap
                    ELSE IF Splice(actions, index) = <<>>
                         THEN MapDelete(contextMap, bindingKey)
                         ELSE MapSet(contextMap, bindingKey, Splice(actions, index))
            ELSE RemoveAction(contextMap, actionName)
      IN clearCache([bm EXCEPT !.bindings = MapSet(bm.bindings, context, removed)])

\* A bindings configuration is an object context -> action -> binding(s):
\* an ordered [k, v] sequence at both levels; an array of bindings is
\* [array |-> <<...>>], anything else a single binding.
IsArray(x) == Has(x, "array")

RECURSIVE ConfigEntries(_)
\* the (context, action, binding) triples of a configuration, in the order
\* the three nested loops of loadBindings visit them
ConfigEntries(bindingsConfig) ==
    IF bindingsConfig = <<>> THEN <<>>
    ELSE LET contextName == bindingsConfig[1].k
             contextBindings == bindingsConfig[1].v
             OfAction(e) ==
                LET bindingArray == IF IsArray(e.v) THEN e.v.array ELSE <<e.v>>
                IN [i \in DOMAIN bindingArray |->
                      [context |-> contextName, actionName |-> e.k,
                       binding |-> bindingArray[i]]]
             Flat[i \in 0..Len(contextBindings)] ==
                IF i = 0 THEN <<>>
                ELSE Flat[i - 1] \o OfAction(contextBindings[i])
         IN Flat[Len(contextBindings)] \o ConfigEntries(Tail(bindingsConfig))

RECURSIVE AddAll(_, _)
AddAll(bm, entries) ==
    IF entries = <<>> THEN bm
    ELSE AddAll(addBinding(bm, entries[1].context, entries[1].actionName,
                           entries[1].binding, FALSE),
                Tail(entries))

loadBindings(bm, bindingsConfig) ==
    AddAll(clearCache([bm EXCEPT !.bindings = <<>>]), ConfigEntries(bindingsConfig))

\* generateCacheKey as it would be if the context were left out of the key
generateCacheKeyWithoutContext(bm, inputData, context) ==
    Join(<<generateInputKeys(inputData)[1],
           OrElse(inputData, "type", Undefined),
           ToString(bm.cacheVersion)>>, ":")

generateCacheKey(bm, inputData, context) ==
    Join(<<context, generateInputKeys(inputData)[1],
           OrElse(inputData, "type", Undefined),
           ToString(bm.cacheVersion)>>, ":")

\* the loops of mapInputToActions over the input keys and their bindings
ResolveActions(contextMap, inputData) ==
    LET inputKeys == generateInputKeys(inputData)
        OfKey(inputKey) ==
            IF MapHas(contextMap, inputKey)
            THEN LET matching ==
                        SelectSeq(MapGet(contextMap, inputKey),
                                  LAMBDA actionConfig :
                                      matchesBinding(inputData, actionConfig))
                 IN [i \in DOMAIN matching |->
                        createActionFromBinding(inputData, matching[i])]
            ELSE <<>>
        Flat[i \in 0..Len(inputKeys)] ==
            IF i = 0 THEN <<>> ELSE Flat[i - 1] \o OfKey(inputKeys[i])
    IN Flat[Len(inputKeys)]

\* returns the map after the call (its cache may have grown) and the actions
mapInputToActions(bm, inputData, context) ==
    LET targetContext == IF context # NoContext THEN context ELSE bm.activeContext
        cacheKey == generateCacheKey(bm, inputData, targetContext)
        actions == IF MapHas(bm.bindings, targetContext)
                   THEN ResolveActions(MapGet(bm.bindings, targetContext), inputData)
                   ELSE <<>>
    IN IF cacheKey \in DOMAIN bm.bindingCache
       THEN [bm |-> bm, actions |-> bm.bindingCache[cacheKey]]
       ELSE [bm |-> [bm EXCEPT !.bindingCache =
                        [x \in {cacheKey} |-> actions] @@ bm.bindingCache],
             actions |-> actions]

setActiveContext(bm, context) ==
    IF bm.activeContext # context
    THEN clearCache([bm EXCEPT !.activeContext = context])
    ELSE bm

----------------------------------------------------------------------------
(* The event bus: what a call emits is appended to its list of events *)

Event(type, payload) == [type |-> type, payload |-> payload]

OfType(evs, type) == SelectSeq(evs, LAMBDA e : e.type = type)

----------------------------------------------------------------------------
(* The key-sequence ComboTracker: src/src/input/ComboTracker.js *)

\* the timeout a tracker gets when its options name none (milliseconds)
KeyTrackerDefaultTimeout == 500

\* What the constructor's first argument is: an event bus, nothing, or
\* (as InputManager.initialize passes it) a number.
NewKeyTracker(bus, options) ==
    [class |-> "keys",
     eventManager |-> bus,
     defaultTimeout |-> IF Has(options, "timeout") THEN options.timeout
                        ELSE KeyTrackerDefaultTimeout,
     \* options.maxSequenceLength || Infinity: 0 stands for Infinity, which
     \* is what a missing option and the option 0 both give
     maxSequenceLength |-> Num(options, "maxSequenceLength"),
     combos |-> <<>>,
     buffer |-> <<>>,
     \* the pending setTimeout, with the time it is due
     clearTimer |-> [armed |-> FALSE, due |-> 0]]

\* steps is an array of key strings
KeyTracker_registerCombo(tracker, comboId, steps, callback) ==
    [tracker EXCEPT !.combos =
        MapSet(tracker.combos, comboId, [sequence |-> steps, callback |-> callback])]

KeyTracker_unregisterCombo(tracker, comboId) ==
    [tracker EXCEPT !.combos = MapDelete(tracker.combos, comboId)]

cleanup(tracker) ==
    [tracker EXCEPT !.buffer = <<>>, !.clearTimer = [armed |-> FALSE, due |-> 0]]

RECURSIVE TrimTo(_, _)
\* while (buffer.length > maxSequenceLength) buffer.shift()
\* a buffer that is never trimmed
KeepAll(buffer, maxSequenceLength) == buffer

TrimTo(buffer, maxSequenceLength) ==
    IF maxSequenceLength # 0 /\ Len(buffer) > maxSequenceLength
    THEN TrimTo(Tail(buffer), maxSequenceLength)
    ELSE buffer

\* buffer.slice(-len)
LastKeys(buffer, len) == SubSeq(buffer, Len(buffer) - len + 1, Len(buffer))

\* a matcher that compares the sequence with the oldest keys of the buffer
SuffixMatchesOldest(buffer, sequence) ==
    /\ Len(sequence) > 0
    /\ Len(buffer) >= Len(sequence)
    /\ SubSeq(buffer, 1, Len(sequence)) = sequence

\* whether the combo's sequence is the buffer's suffix
SuffixMatches(buffer, sequence) ==
    /\ Len(sequence) > 0
    /\ Len(buffer) >= Len(sequence)
    /\ LastKeys(buffer, Len(sequence)) = sequence

\* the entry processInput fires: the first match of the reversed entries
\* (0 when none matches)
FirstMatchNewestFirst(entries, buffer) ==
    IF \E i \in DOMAIN entries : SuffixMatches(buffer, entries[i].v.sequence)
    THEN CHOOSE i \in DOMAIN entries :
            /\ SuffixMatches(buffer, entries[i].v.sequence)
            /\ \A j \in (i + 1)..Len(entries) :
                    ~SuffixMatches(buffer, entries[j].v.sequence)
    ELSE 0

\* a processInput that calls the callback outside any try
CallbackUncaught(callback) == callback = "throws"

\* try { callback(data); } catch (_) {}: whether what the callback throws
\* leaves processInput
CallbackEscapes(callback) == FALSE

\* processInput(key) at time t: the tracker after the call, the events it
\* emitted, the callbacks it invoked, and whether it threw
processInput(tracker, key, t) ==
    LET buffer == TrimTo(Append(tracker.buffer, key), tracker.maxSequenceLength)
        armed == [tracker EXCEPT
                    !.buffer = buffer,
                    !.clearTimer = [armed |-> TRUE, due |-> t + tracker.defaultTimeout]]
        hit == FirstMatchNewestFirst(tracker.combos, buffer)
        data == [name |-> tracker.combos[hit].k,
                 sequence |-> LastKeys(buffer, Len(tracker.combos[hit].v.sequence)),
                 timestamp |-> t]
    IN IF hit = 0
       THEN [tracker |-> armed, events |-> <<>>, callbacks |-> <<>>, threw |-> FALSE]
       ELSE IF tracker.eventManager = "none"
       THEN [tracker |-> armed, events |-> <<>>,
             callbacks |-> IF tracker.combos[hit].v.callback # "none"
                           THEN <<data.name>> ELSE <<>>,
             threw |-> CallbackEscapes(tracker.combos[hit].v.callback)]
       ELSE IF tracker.eventManager = "number"
       \* this.eventManager?.emit is undefined on a number: calling it throws
       THEN [tracker |-> armed, events |-> <<>>, callbacks |-> <<>>, threw |-> TRUE]
       ELSE [tracker |-> armed,
             events |-> <<Event("input:combo", [data |-> data])>>,
             \* try { callback(data) } catch (_) {}
             callbacks |-> IF tracker.combos[hit].v.callback # "none"
                           THEN <<data.name>> ELSE <<>>,
             threw |-> CallbackEscapes(tracker.combos[hit].v.callback)]

\* the setTimeout callback: () => { this.buffer = []; }
TimerCallback(tracker) ==
    [tracker EXCEPT !.buffer = <<>>, !.clearTimer.armed = FALSE]

----------------------------------------------------------------------------
(* The step-based ComboTracker: src/unnamed/part_005 *)

\* the timeout a tracker gets when its constructor is given none
StepTrackerDefaultTimeout == 500

\* how many completions the statistics lists of a tracker count before the
\* count stops growing (nothing reads them but getStats)
MaxRecorded == 1

NewStepTracker(defaultTimeout) ==
    [class |-> "steps",
     defaultTimeout |-> defaultTimeout,
     combos |-> <<>>,
     activeSequences |-> <<>>,
     nextSequenceId |-> 1,
     \* completedCombos and comboHistory, by their length
     recorded |-> 0]

parseStepString(stepString) ==
    LET parts == stepString
        deviceType == IF Len(parts) = 2 THEN Join(parts[1], "+") ELSE "keyboard"
        keys == IF Len(parts) = 2 THEN parts[2] ELSE SplitPlus(parts)
        normalizedKeys == [i \in DOMAIN keys |-> toLowerCase(keys[i])]
        flags == {normalizedKeys[i] : i \in DOMAIN normalizedKeys} \cap ModifierTokens
        others == SelectSeq(normalizedKeys, LAMBDA t : t \notin ModifierTokens)
    IN [key |-> IF others = <<>> THEN "" ELSE others[Len(others)],
        type |-> "press",
        deviceType |-> deviceType,
        modifiers |-> [m \in {IF f = "cmd" THEN "meta" ELSE f : f \in flags} |-> TRUE],
        optional |-> FALSE]

\* minValue, maxValue (and the unused interval bounds) stay undefined
\* unless the step names them
normalizeComboStep(step) ==
    IF IsString(step) THEN parseStepString(step.string)
    ELSE [key |-> IF Has(step, "key") THEN step.key
                  ELSE OrElse(step, "input", Undefined),
          type |-> OrElse(step, "type", "press"),
          deviceType |-> OrElse(step, "deviceType", "keyboard"),
          modifiers |-> OrElse(step, "modifiers", EmptyObject),
          optional |-> Has(step, "optional") /\ step.optional]
         @@ [f \in DOMAIN step \cap {"minValue", "maxValue"} |-> step[f]]

\* rawConfig.steps is an array of steps (the pattern-string form is not used
\* by the model's callers)
normalizeComboConfig(tracker, rawConfig) ==
    [name |-> OrElse(rawConfig, "name", ""),
     steps |-> [i \in DOMAIN rawConfig.steps |-> normalizeComboStep(rawConfig.steps[i])],
     timeout |-> IF Has(rawConfig, "timeout") /\ rawConfig.timeout # 0
                 THEN rawConfig.timeout ELSE tracker.defaultTimeout,
     allowMultiple |-> Has(rawConfig, "allowMultiple") /\ rawConfig.allowMultiple,
     data |-> OrElse(rawConfig, "data", EmptyObject)]

registerCombo(tracker, comboId, comboConfig) ==
    [tracker EXCEPT !.combos =
        MapSet(tracker.combos, comboId,
               [id |-> comboId] @@ normalizeComboConfig(tracker, comboConfig))]

unregisterCombo(tracker, comboId) ==
    [tracker EXCEPT
        !.combos = MapDelete(tracker.combos, comboId),
        !.activeSequences = SelectSeq(tracker.activeSequences,
                                      LAMBDA e : e.v.comboId # comboId)]

\* for a step that is defined; on an undefined step the first property
\* read throws (see StepMissing)
matchesComboStep(inputData, step) ==
    LET inputModifiers == OrElse(inputData, "modifiers", EmptyObject)
        Active(modifier) ==
            modifier \in DOMAIN inputModifiers /\ inputModifiers[modifier]
    IN /\ ~(step.key \notin {"", Undefined}
            /\ OrElse(inputData, "key", Undefined) # step.key)
       /\ ~(step.type # ""
            /\ OrElse(inputData, "type", Undefined) # step.type)
       /\ ~(step.deviceType # ""
            /\ OrElse(inputData, "deviceType", Undefined) # step.deviceType)
       /\ \A modifier \in DOMAIN step.modifiers :
            step.modifiers[modifier] = Active(modifier)
       /\ ~(Has(step, "minValue") /\ Num(inputData, "value") < step.minValue)
       /\ ~(Has(step, "maxValue") /\ Num(inputData, "value") > step.maxValue)

\* inputData is null: a step read from a registered combo has modifiers
\* (normalizeComboConfig gives every step a modifiers object), so that
\* matchesComboStep reads inputData.modifiers, if not inputData.key before
\* it, and throws a TypeError
InputMissing(inputData) == inputData = Null

\* sequence.steps[sequence.currentStep] is undefined
StepMissing(sequence) == sequence.currentStep >= Len(sequence.steps)

TimedOut(sequence, currentTime) ==
    currentTime - sequence.lastInputTime > sequence.timeout

RECURSIVE UpdateFrom(_, _, _, _, _)
\* the loop of updateActiveSequences from entry i on: the sequences as
\* changed so far, the ids collected in sequencesToRemove, and whether
\* matchesComboStep threw (which ends the loop and the call)
UpdateFrom(sequences, i, sequencesToRemove, inputData, currentTime) ==
    IF i > Len(sequences)
    THEN [sequences |-> sequences, remove |-> sequencesToRemove, threw |-> FALSE]
    ELSE
      LET sequence == sequences[i].v
          advanced ==
            [sequence EXCEPT
                !.currentStep = @ + 1,
                !.lastInputTime = currentTime,
                !.inputs = Append(@, inputData),
                !.completed = sequence.currentStep + 1 >= Len(sequence.steps),
                !.completionTime =
                    IF sequence.currentStep + 1 >= Len(sequence.steps)
                    THEN currentTime ELSE @]
      IN IF TimedOut(sequence, currentTime)
         THEN UpdateFrom(sequences, i + 1, sequencesToRemove \cup {sequences[i].k},
                         inputData, currentTime)
         ELSE IF StepMissing(sequence) \/ InputMissing(inputData)
         THEN [sequences |-> sequences, remove |-> sequencesToRemove, threw |-> TRUE]
         ELSE IF matchesComboStep(inputData, sequence.steps[sequence.currentStep + 1])
         THEN UpdateFrom([sequences EXCEPT ![i].v = advanced], i + 1,
                         sequencesToRemove, inputData, currentTime)
         ELSE IF ~sequence.steps[sequence.currentStep + 1].optional
         THEN UpdateFrom(sequences, i + 1, sequencesToRemove \cup {sequences[i].k},
                         inputData, currentTime)
         ELSE UpdateFrom(sequences, i + 1, sequencesToRemove, inputData, currentTime)

\* the tracker after the call and whether the call threw; a throw leaves the
\* loop before the removals are applied
updateActiveSequences(tracker, inputData, currentTime) ==
    LET loop == UpdateFrom(tracker.activeSequences, 1, {}, inputData, currentTime)
    IN [tracker |->
            [tracker EXCEPT !.activeSequences =
                IF loop.threw THEN loop.sequences
                ELSE SelectSeq(loop.sequences, LAMBDA e : e.k \notin loop.remove)],
        threw |-> loop.threw]

RECURSIVE StartFrom(_, _, _, _)
\* the loop of startNewSequences from combo i on
StartFrom(tracker, i, inputData, currentTime) ==
    IF i > Len(tracker.combos) THEN tracker
    ELSE
      LET comboId == tracker.combos[i].k
          combo == tracker.combos[i].v
          hasActiveSequence ==
            \E e \in Range(tracker.activeSequences) :
                e.v.comboId = comboId /\ ~e.v.completed
          sequenceId == tracker.nextSequenceId
          sequence ==
            [id |-> sequenceId,
             comboId |-> comboId,
             steps |-> combo.steps,
             currentStep |-> 1,
             inputs |-> <<inputData>>,
             startTime |-> currentTime,
             lastInputTime |-> currentTime,
             timeout |-> IF combo.timeout # 0 THEN combo.timeout
                         ELSE tracker.defaultTimeout,
             completed |-> Len(combo.steps) = 1,
             \* null until the sequence completes
             completionTime |-> IF Len(combo.steps) = 1 THEN currentTime ELSE 0]
      IN IF hasActiveSequence /\ ~combo.allowMultiple
         THEN StartFrom(tracker, i + 1, inputData, currentTime)
         ELSE IF matchesComboStep(inputData, combo.steps[1])
         THEN StartFrom([tracker EXCEPT
                            !.nextSequenceId = @ + 1,
                            !.activeSequences =
                                Append(@, [k |-> sequenceId, v |-> sequence])],
                        i + 1, inputData, currentTime)
         ELSE StartFrom(tracker, i + 1, inputData, currentTime)

startNewSequences(tracker, inputData, currentTime) ==
    StartFrom(tracker, 1, inputData, currentTime)

\* startNewSequences throws at the first combo it does not skip, before it
\* has started a sequence, when the input is null
StartThrows(tracker, inputData) ==
    /\ InputMissing(inputData)
    /\ \E i \in DOMAIN tracker.combos :
          ~(/\ ~tracker.combos[i].v.allowMultiple
            /\ \E e \in Range(tracker.activeSequences) :
                  e.v.comboId = tracker.combos[i].k /\ ~e.v.completed)

\* a matcher that takes the last completed sequence instead
LastCompleted(sequences) ==
    IF \E i \in DOMAIN sequences : sequences[i].v.completed
    THEN CHOOSE i \in DOMAIN sequences :
            /\ sequences[i].v.completed
            /\ \A j \in (i + 1)..Len(sequences) : ~sequences[j].v.completed
    ELSE 0

\* position of the first completed sequence in iteration order, 0 for none
FirstCompleted(sequences) ==
    IF \E i \in DOMAIN sequences : sequences[i].v.completed
    THEN CHOOSE i \in DOMAIN sequences :
            /\ sequences[i].v.completed
            /\ \A j \in 1..(i - 1) : ~sequences[j].v.completed
    ELSE 0

\* the tracker after the call and the result (Null when nothing completed)
checkCompletedCombos(tracker) ==
    LET i == FirstCompleted(tracker.activeSequences)
        sequence == tracker.activeSequences[i].v
        combo == MapGet(tracker.combos, sequence.comboId)
    IN IF i = 0 THEN [tracker |-> tracker, result |-> Null]
       ELSE [tracker |-> [tracker EXCEPT !.activeSequences =
                            MapDelete(@, tracker.activeSequences[i].k)],
             result |-> [comboId |-> sequence.comboId,
                         name |-> IF combo.name # "" THEN combo.name
                                  ELSE sequence.comboId,
                         sequence |-> sequence,
                         inputs |-> sequence.inputs,
                         startTime |-> sequence.startTime,
                         completionTime |-> sequence.completionTime,
                         totalTime |-> sequence.completionTime - sequence.startTime,
                         data |-> combo.data]]

recordComboCompletion(tracker, combo) ==
    [tracker EXCEPT !.recorded = Min(@ + 1, MaxRecorded)]

\* the tracker after the call, what the call returned (Null for null), and
\* whether it threw instead of returning
checkForCombo(tracker, inputData, currentTime) ==
    LET updated == updateActiveSequences(tracker, inputData, currentTime)
        started == startNewSequences(updated.tracker, inputData, currentTime)
        checked == checkCompletedCombos(started)
    IN IF updated.threw \/ StartThrows(updated.tracker, inputData)
       THEN [tracker |-> updated.tracker, result |-> Null, threw |-> TRUE]
       ELSE IF checked.result # Null
       THEN [tracker |-> recordComboCompletion(checked.tracker, checked.result),
             result |-> checked.result, threw |-> FALSE]
       ELSE [tracker |-> checked.tracker, result |-> Null, threw |-> FALSE]

\* ComboTracker.update: drops the sequences that have timed out
StepTracker_update(tracker, currentTime) ==
    [tracker EXCEPT !.activeSequences =
        SelectSeq(@, LAMBDA e : ~TimedOut(e.v, currentTime))]

clearActiveSequences(tracker) == [tracker EXCEPT !.activeSequences = <<>>]

----------------------------------------------------------------------------
(* KeyBuffer: src/unnamed/part_006 *)

\* buffer is the array, indexed from 0; pressedKeys (a Set, its values in
\* insertion order) and keyOrder belong to the simple add/remove interface
NewKeyBuffer(size) ==
    [bufferSize |-> IF size < 0 THEN -1 ELSE size,
     buffer |-> [i \in 0..(size - 1) |-> Null],
     writeIndex |-> 0,
     count |-> 0,
     pressedKeys |-> <<>>,
     keyOrder |-> <<>>]

\* {...inputData}: spreading null gives no properties
SpreadInput(inputData) == IF inputData = Null THEN EmptyObject ELSE inputData

\* the number NaN, which no index of the model is otherwise: an index is
\* never negative
NaN == -1

\* a % b for a that is NaN or not negative: NaN when a is NaN or b is 0,
\* and otherwise the remainder of a by the magnitude of b
JSMod(a, b) ==
    IF a = NaN \/ b = 0 THEN NaN ELSE a % Abs(b)

\* a + b, NaN when a is NaN
JSPlus(a, b) == IF a = NaN THEN NaN ELSE a + b

\* an addInput that numbers an entry by the entries stored before it
EntryCount(kb) == kb.count

\* bufferIndex: this.writeIndex
EntryIndex(kb) == kb.writeIndex

\* at time t.  this.buffer[this.writeIndex] = bufferedInput stores under the
\* property NaN when writeIndex is NaN.
addInput(kb, inputData, t) ==
    LET bufferedInput ==
            [bufferTimestamp |-> t, bufferIndex |-> EntryIndex(kb)]
            @@ SpreadInput(inputData)
    IN [kb EXCEPT
          !.buffer = [i \in DOMAIN kb.buffer \cup {kb.writeIndex} |->
                        IF i = kb.writeIndex THEN bufferedInput ELSE kb.buffer[i]],
          !.writeIndex = JSMod(JSPlus(kb.writeIndex, 1), kb.bufferSize),
          !.count = IF kb.count < kb.bufferSize THEN kb.count + 1 ELSE kb.count]

\* a getRecentInputs that reads the array from its start
OldestIndex(kb, i) == JSMod(i, kb.bufferSize)

\* (this.writeIndex - 1 - i + this.bufferSize) % this.bufferSize, for
\* i < count
RecentIndex(kb, i) ==
    JSMod(kb.writeIndex - 1 - i + kb.bufferSize, kb.bufferSize)

\* getRecentInputs(count, eventType), eventType "" for none: the entries
\* pushed for i = 0 .. maxCount - 1, in that order
getRecentInputs(kb, count, eventType) ==
    LET maxCount == Min(count, kb.count)
        Entry(i) == kb.buffer[RecentIndex(kb, i)]
        Kept(i) == /\ Entry(i) # Null
                   /\ eventType = ""
                        \/ OrElse(Entry(i), "type", Undefined) = eventType
        visited == [i \in 1..maxCount |-> i - 1]
        kept == SelectSeq(visited, Kept)
    IN [n \in DOMAIN kept |-> Entry(kept[n])]

\* the clear() of lines 361-369, which the class body defines first
clearHistory(kb) ==
    [kb EXCEPT !.buffer = [i \in DOMAIN kb.buffer |-> Null],
               !.writeIndex = 0,
               !.count = 0]

\* clear(): the class body defines clear twice, and the second definition
\* (lines 450-453) is the one the class has
KeyBuffer_clear(kb) == [kb EXCEPT !.pressedKeys = <<>>, !.keyOrder = <<>>]

\* Set.prototype.add: a Set keeps its values in insertion order, and adding
\* a value it has leaves it as it is
SetAdd(set, value) ==
    IF value \in Range(set) THEN set ELSE Append(set, value)

\* Set.prototype.delete
SetDelete(set, value) == SelectSeq(set, LAMBDA v : v # value)

size(kb) == Len(kb.pressedKeys)

\* add(key): the buffer after the call and the key shifted off keyOrder ("" for
\* none), which need not be a pressed key
add(kb, key) ==
    LET pressed == SetAdd(kb.pressedKeys, key)
        order == Append(kb.keyOrder, key)
        oldest == order[1]
    IN IF kb.bufferSize = 0 THEN [kb |-> kb, shifted |-> ""]
       ELSE IF kb.bufferSize > 0 /\ Len(pressed) > kb.bufferSize
       THEN [kb |-> [kb EXCEPT !.pressedKeys = SetDelete(pressed, oldest),
                               !.keyOrder = Tail(order)],
             shifted |-> oldest]
       ELSE [kb |-> [kb EXCEPT !.pressedKeys = pressed, !.keyOrder = order],
             shifted |-> ""]

isPressed(kb, key) == key \in Range(kb.pressedKeys)

\* remove(key): the buffer after the call and what the call returned
remove(kb, key) ==
    IF isPressed(kb, key)
    THEN [kb |-> [kb EXCEPT !.pressedKeys = SetDelete(@, key),
                            !.keyOrder = SelectSeq(@, LAMBDA k : k # key)],
          result |-> TRUE]
    ELSE [kb |-> kb, result |-> FALSE]

\* KeyBuffer.update does nothing
KeyBuffer_update(kb, deltaTime) == kb

----------------------------------------------------------------------------
(* InputManager: src/unnamed/part_007.  A method is an operator on the
   manager's fields taken together as one record, im. *)

emit(evs, eventType, data) == Append(evs, Event(eventType, data))

handleError(evs, error, context) ==
    emit(evs, "input:error", [error |-> error, context |-> context])

NewActionState ==
    [isPressed |-> FALSE, justPressed |-> FALSE, justReleased |-> FALSE,
     value |-> 0, timestamp |-> 0]

\* the manager after the call and the events the call emitted
processActionInput(im, action) ==
    LET known == MapHas(im.actionStates, action.name)
        state == IF known THEN MapGet(im.actionStates, action.name)
                 ELSE NewActionState
        wasPressed == state.isPressed
        analogValue == action.value
        analogPressed == Abs(analogValue) > im.config.analogDeadzone
        switched ==
            CASE action.type = "press" ->
                    [state EXCEPT !.isPressed = TRUE,
                                  !.justPressed = ~wasPressed,
                                  !.justReleased = FALSE,
                                  !.value = IF action.value # 0 THEN action.value
                                            ELSE 100]
              [] action.type = "release" ->
                    [state EXCEPT !.isPressed = FALSE,
                                  !.justPressed = FALSE,
                                  !.justReleased = wasPressed,
                                  !.value = 0]
              [] action.type = "analog" ->
                    [state EXCEPT !.value = analogValue,
                                  !.isPressed = analogPressed,
                                  !.justPressed = analogPressed /\ ~wasPressed,
                                  !.justReleased = ~analogPressed /\ wasPressed]
        stamped == [switched EXCEPT !.timestamp =
                        IF action.timestamp # 0 THEN action.timestamp
                        ELSE im.frameData.timestamp]
    IN IF action.type \notin {"press", "release", "analog"}
       THEN [im |-> im,
             events |-> handleError(<<>>, "Invalid action data", "processActionInput")]
       ELSE [im |-> [im EXCEPT !.actionStates = MapSet(@, action.name, stamped)],
             events |-> <<>>]

RECURSIVE ProcessActions(_, _)
\* for (const action of actions) this.processActionInput(action)
ProcessActions(call, actions) ==
    IF actions = <<>> THEN call
    ELSE LET one == processActionInput(call.im, actions[1])
         IN ProcessActions([im |-> one.im, events |-> call.events \o one.events],
                           Tail(actions))

\* the events of one action state, in the order updateActionStates emits them
StateEvents(actionName, state) ==
    (IF state.justPressed
     THEN <<Event("input:action_pressed", [action |-> actionName, value |-> state.value])>>
     ELSE <<>>)
    \o (IF state.justReleased
        THEN <<Event("input:action_released", [action |-> actionName])>>
        ELSE <<>>)
    \o (IF state.isPressed
        THEN <<Event("input:action_held", [action |-> actionName, value |-> state.value])>>
        ELSE <<>>)

updateActionStates(im) ==
    LET states == im.actionStates
        Emitted[i \in 0..Len(states)] ==
            IF i = 0 THEN <<>>
            ELSE Emitted[i - 1] \o StateEvents(states[i].k, states[i].v)
    IN [im |-> [im EXCEPT !.actionStates =
                    [i \in DOMAIN states |->
                        [states[i] EXCEPT !.v.justPressed = FALSE,
                                          !.v.justReleased = FALSE]]],
        events |-> Emitted[Len(states)]]

processComboInput(im, combo) ==
    [im |-> im, events |-> emit(<<>>, "input:combo", combo)]

\* this.comboTracker?.checkForCombo(inputData): the key-sequence class has
\* no checkForCombo, so the call on it throws a TypeError
ConsultComboTracker(tracker, inputData, t) ==
    IF tracker = Null
    THEN [tracker |-> tracker, result |-> Null, threw |-> FALSE]
    ELSE IF tracker.class = "keys"
    THEN [tracker |-> tracker, result |-> Null, threw |-> TRUE]
    ELSE checkForCombo(tracker, inputData, t)

\* the component calls of processRawInput, as they appear in a call's trace
HistoryCall == "keyBuffer.addInput"

ComboCall == "comboTracker.checkForCombo"

BindingCall == "bindingMap.mapInputToActions"

\* a resolution that goes on to the binding table after a combo was reported
ResolveAlways(combo) == FALSE

\* if (combo) { this.processComboInput(combo); return; }
StopsAtCombo(combo) == combo # Null

\* a manager that ignores input only until it is initialized
IgnoresUninitialized(im) == ~im.isInitialized

\* if (!this.isInitialized || this.isPaused) return;
Ignores(im) == ~im.isInitialized \/ im.isPaused

\* The manager after the call, the events emitted, the component calls made
\* in order, and the combo the matcher reported (Null for none).  A
\* deviceType is a string or Null; an inputData is an object, a string, or
\* Null, whose typeof is 'object' as well.
processRawInput(im, deviceType, inputData, t) ==
    LET buffered == IF im.keyBuffer = Null THEN im
                    ELSE [im EXCEPT !.keyBuffer = addInput(@, inputData, t)]
        consulted == ConsultComboTracker(buffered.comboTracker, inputData, t)
        matched == [buffered EXCEPT !.comboTracker = consulted.tracker]
        lookup == mapInputToActions(matched.bindingMap, inputData,
                                    matched.currentContext)
        resolved == IF matched.bindingMap = Null
                    THEN [im |-> matched, events |-> <<>>]
                    ELSE ProcessActions(
                            [im |-> [matched EXCEPT !.bindingMap = lookup.bm],
                             events |-> <<>>],
                            lookup.actions)
        reported == processComboInput(matched, consulted.result)
    IN IF ~IsString(deviceType) \/ IsString(inputData)
       THEN [im |-> im,
             events |-> handleError(<<>>, "Invalid raw input parameters",
                                    "processRawInput"),
             trace |-> <<>>, combo |-> Null]
       ELSE IF Ignores(im)
       THEN [im |-> im, events |-> <<>>, trace |-> <<>>, combo |-> Null]
       ELSE IF consulted.threw
       THEN [im |-> matched,
             events |-> handleError(<<>>, "TypeError", "processRawInput"),
             trace |-> <<HistoryCall, ComboCall>>, combo |-> Null]
       ELSE IF StopsAtCombo(consulted.result)
       THEN [im |-> reported.im, events |-> reported.events,
             trace |-> <<HistoryCall, ComboCall>>, combo |-> consulted.result]
       ELSE IF InputMissing(inputData)
       THEN \* generateInputKeys reads inputData.deviceType
            [im |-> matched,
             events |-> handleError(<<>>, "TypeError", "processRawInput"),
             trace |-> <<HistoryCall, ComboCall, BindingCall>>, combo |-> Null]
       ELSE [im |-> resolved.im,
             events |-> (IF consulted.result # Null THEN reported.events ELSE <<>>)
                        \o resolved.events,
             trace |-> <<HistoryCall, ComboCall, BindingCall>>,
             combo |-> consulted.result]

\* registerAdapter(deviceType, adapter).  An adapter is what its update does
\* next: the raw inputs it hands to processRawInput, or a throw.
registerAdapter(im, deviceType, adapter) ==
    [im |-> [im EXCEPT !.deviceAdapters = MapSet(@, deviceType, adapter)],
     events |-> emit(<<>>, "input:adapter_registered",
                     [deviceType |-> deviceType, adapter |-> adapter])]

AdapterContext(deviceType) ==
    IF deviceType = "keyboard" THEN "updateAdapter:keyboard"
    ELSE "updateAdapter:mouse"

\* const x = value; F(x): the value is computed once
Bind(value, F(_)) == CHOOSE result \in {F(x) : x \in {value}} : TRUE

RECURSIVE Deliver(_, _, _, _)
\* the processRawInput calls one adapter makes from its update
Deliver(sofar, deviceType, inputs, t) ==
    IF inputs = <<>> THEN sofar
    ELSE Bind(sofar, LAMBDA call :
         Bind(processRawInput(call.im, [string |-> deviceType], inputs[1], t),
              LAMBDA one :
                Deliver([im |-> one.im, events |-> call.events \o one.events],
                        deviceType, Tail(inputs), t)))

RECURSIVE UpdateAdapters(_, _, _)
\* for (const [deviceType, adapter] of this.deviceAdapters): what an adapter
\* throws is caught and reported; an adapter that has polled has nothing
\* more to hand over
UpdateAdapters(sofar, i, t) ==
    Bind(sofar, LAMBDA call :
        IF i > Len(call.im.deviceAdapters) THEN call
        ELSE LET deviceType == call.im.deviceAdapters[i].k
                 adapter == call.im.deviceAdapters[i].v
                 polled == [call EXCEPT !.im.deviceAdapters[i].v.inputs = <<>>]
             IN IF adapter.throws
                THEN UpdateAdapters(
                        [im |-> call.im,
                         events |-> handleError(call.events, "adapter",
                                                AdapterContext(deviceType))],
                        i + 1, t)
                ELSE UpdateAdapters(Deliver(polled, deviceType, adapter.inputs, t),
                                    i + 1, t))

\* update() from keyBuffer.update on, the adapters done: maintenance, then
\* the action states
AfterAdapters(polled, deltaTime, t) ==
    LET buffered == IF polled.im.keyBuffer = Null THEN polled.im
                    ELSE [polled.im EXCEPT !.keyBuffer = KeyBuffer_update(@, deltaTime)]
        swept == IF buffered.comboTracker = Null THEN buffered
                 ELSE [buffered EXCEPT !.comboTracker = StepTracker_update(@, t)]
        flushed == updateActionStates(swept)
    IN IF buffered.comboTracker # Null /\ buffered.comboTracker.class = "keys"
       THEN [im |-> buffered, events |-> polled.events, threw |-> TRUE]
       ELSE [im |-> flushed.im, events |-> polled.events \o flushed.events,
             threw |-> FALSE]

\* The manager after the call, the events emitted and whether the call
\* threw.  The key-sequence class has no update, so the call on it throws a
\* TypeError that nothing catches.
update(im, deltaTime, t) ==
    LET framed == [im EXCEPT !.frameData =
                      [timestamp |-> t, deltaTime |-> deltaTime,
                       frameNumber |-> im.frameData.frameNumber + 1]]
    IN IF Ignores(im)
       THEN [im |-> im, events |-> <<>>, threw |-> FALSE]
       ELSE Bind(UpdateAdapters([im |-> framed, events |-> <<>>], 1, t),
                 LAMBDA polled : AfterAdapters(polled, deltaTime, t))

\* a pushContext that saves the new context instead of the current one
pushContextSavesNew(im, contextName) ==
    LET stack == IF im.currentContext # NoContext
                 THEN Append(im.contextStack, contextName)
                 ELSE im.contextStack
    IN [im |-> [im EXCEPT
                  !.contextStack = stack,
                  !.currentContext = contextName,
                  !.bindingMap = IF @ = Null THEN @
                                 ELSE setActiveContext(@, contextName)],
        events |-> emit(<<>>, "input:context_changed",
                        [context |-> contextName, stack |-> stack])]

pushContext(im, contextName) ==
    LET stack == IF im.currentContext # NoContext
                 THEN Append(im.contextStack, im.currentContext)
                 ELSE im.contextStack
    IN [im |-> [im EXCEPT
                  !.contextStack = stack,
                  !.currentContext = contextName,
                  !.bindingMap = IF @ = Null THEN @
                                 ELSE setActiveContext(@, contextName)],
        events |-> emit(<<>>, "input:context_changed",
                        [context |-> contextName, stack |-> stack])]

popContext(im) ==
    LET depth == Len(im.contextStack)
        top == im.contextStack[depth]
        stack == SubSeq(im.contextStack, 1, depth - 1)
    IN IF depth = 0 THEN [im |-> im, events |-> <<>>]
       ELSE [im |-> [im EXCEPT
                       !.contextStack = stack,
                       !.currentContext = top,
                       !.bindingMap = IF @ = Null THEN @
                                      ELSE setActiveContext(@, top)],
             events |-> emit(<<>>, "input:context_changed",
                             [context |-> top, stack |-> stack])]

setPaused(im, paused) ==
    [im |-> [im EXCEPT !.isPaused = paused],
     events |-> emit(<<>>, "input:pause_changed", [paused |-> paused])]

dispose(im) ==
    [im |-> [im EXCEPT !.deviceAdapters = <<>>,
                       !.actionStates = <<>>,
                       !.contextStack = <<>>,
                       !.isInitialized = FALSE],
     events |-> emit(<<>>, "input:disposed", EmptyObject)]

\* { ...a, ...b }
Spread(a, b) == b @@ a

\* const maxRetries = 3
maxRetries == 3

\* a loadConfig that gives up after its first failed attempt
RetriesNever(attempt) == FALSE

\* if (attempt < maxRetries), for the attempt counter as incremented
RetriesAgain(attempt) == attempt < maxRetries

\* what the provider yields at its n-th call; it goes on as it last did
OutcomeAt(outcomes, n) ==
    IF n <= Len(outcomes) THEN outcomes[n] ELSE outcomes[Len(outcomes)]

RECURSIVE LoadAttempts(_, _, _, _)
\* The retry loop of loadConfig from one attempt on.  outcomes gives what
\* `config || await this.configProvider?.loadConfig()` yields at each
\* attempt: a configuration, Null for none, or a throw.  attempts is the
\* number of times the provider was asked.
LoadAttempts(im, evs, attempt, outcomes) ==
    LET outcome == OutcomeAt(outcomes, attempt + 1)
        failed == handleError(evs, "load failed", "loadConfig")
    IN IF Has(outcome, "throws")
       THEN IF RetriesAgain(attempt + 1)
            THEN LoadAttempts(im, failed, attempt + 1, outcomes)
            ELSE [im |-> [im EXCEPT !.bindingMap =
                            IF @ = Null THEN @ ELSE loadBindings(@, <<>>)],
                  events |-> failed,
                  attempts |-> attempt + 1]
       ELSE IF outcome = Null
       THEN [im |-> im, events |-> evs, attempts |-> attempt + 1]
       ELSE [im |-> [im EXCEPT
                       !.bindingMap =
                            IF @ = Null THEN @
                            ELSE loadBindings(@, OrElse(outcome, "bindings", <<>>)),
                       !.config = Spread(@, OrElse(outcome, "settings", EmptyObject))],
             events |-> emit(evs, "input:config_loaded", [config |-> outcome]),
             attempts |-> attempt + 1]

loadConfig(im, outcomes) == LoadAttempts(im, <<>>, 0, outcomes)

\* const { actionName, ...bindingConfig } = action
WithoutName(action) == [f \in DOMAIN action \ {"actionName"} |-> action[f]]

RECURSIVE GroupByName(_, _)
\* result[context][action.actionName].push(bindingConfig), action by action
GroupByName(result, actions) ==
    IF actions = <<>> THEN result
    ELSE LET name == actions[1].actionName
             sofar == IF MapHas(result, name) THEN MapGet(result, name) ELSE <<>>
         IN GroupByName(MapSet(result, name, Append(sofar, WithoutName(actions[1]))),
                        Tail(actions))

RECURSIVE ActionsIn(_)
\* the actions of a context, binding key by binding key
ActionsIn(contextMap) ==
    IF contextMap = <<>> THEN <<>>
    ELSE contextMap[1].v \o ActionsIn(Tail(contextMap))

\* BindingMap.getBindings(): context -> action name -> binding configs
getBindings(bm) ==
    [i \in DOMAIN bm.bindings |->
        [k |-> bm.bindings[i].k,
         v |-> LET grouped == GroupByName(<<>>, ActionsIn(bm.bindings[i].v))
               IN [j \in DOMAIN grouped |->
                     [k |-> grouped[j].k, v |-> [array |-> grouped[j].v]]]]]

\* a saveConfig that takes a rejected save for a save
SaveNeverFails(outcome) == FALSE

\* await this.configProvider?.saveConfig(config) rejects
SaveFails(outcome) == Has(outcome, "throws")

\* saveConfig(): outcome is what the provider's saveConfig does, Null for a
\* save that resolves.  attempts is the number of times the provider was
\* asked to save.
saveConfig(im, outcome) ==
    LET saved == [bindings |-> IF im.bindingMap = Null THEN EmptyObject
                               ELSE getBindings(im.bindingMap),
                  settings |-> im.config]
    IN IF SaveFails(outcome)
       THEN [im |-> im,
             events |-> handleError(<<>>, "save failed", "saveConfig"),
             attempts |-> 1]
       ELSE [im |-> im,
             events |-> emit(<<>>, "input:config_saved", [config |-> saved]),
             attempts |-> 1]

\* initialize up to its await: the options are applied and the components
\* constructed.  trackerClass says which of the two ComboTracker classes
\* './ComboTracker.js' is.
initializeStart(im, options, trackerClass) ==
    LET merged == Spread(im.config, options)
    IN [im EXCEPT
          !.config = merged,
          !.bindingMap = NewBindingMap,
          !.keyBuffer = NewKeyBuffer(merged.bufferSize),
          !.comboTracker =
              IF trackerClass = "keys"
              THEN NewKeyTracker("number", EmptyObject)
              ELSE NewStepTracker(merged.comboTimeout)]

\* an initialize() without the test of isInitialized
initializeUnguarded(im, options, trackerClass) ==
    [im |-> initializeStart(im, options, trackerClass), threw |-> FALSE]

\* initialize(options) up to its await: on a manager that is initialized it
\* throws before it touches anything (the promise is rejected)
initialize(im, options, trackerClass) ==
    IF im.isInitialized THEN [im |-> im, threw |-> TRUE]
    ELSE [im |-> initializeStart(im, options, trackerClass), threw |-> FALSE]

\* initialize from its await on
initializeFinish(im, outcomes) ==
    LET loaded == loadConfig(im, outcomes)
        pushed == pushContext(loaded.im, "default")
    IN [im |-> [pushed.im EXCEPT !.isInitialized = TRUE],
        events |-> emit(loaded.events \o pushed.events, "input:initialized",
                        EmptyObject)]

isActionPressed(im, actionName) ==
    MapHas(im.actionStates, actionName)
        /\ MapGet(im.actionStates, actionName).isPressed

----------------------------------------------------------------------------
(* The values the calls of the model are made with *)

\* how many times a BindingMap's cache version is bumped in one run
MaxCacheVersion == 3

Contexts == {"default", "menu"}

ActionNames == {"move_up", "close"}

BindW == BindingString(<< <<"w">> >>)

BindCtrlW == BindingString(<< <<"Ctrl", "W">> >>)

BindingArgs == {BindW, BindCtrlW}

KeyW(type, value) ==
    [deviceType |-> "keyboard", inputType |-> "key", key |-> "w",
     type |-> type, value |-> value]

Modified(input, ctrl, shift) ==
    input @@ [modifiers |-> [ctrl |-> ctrl, shift |-> shift]]

\* the key w pressed: as the end-to-end scenario gives it (no modifiers
\* property), and as a keyboard adapter reports it with and without ctrl
\* the key of the lookup tests that no binding names
KeyX(type, value) == [KeyW(type, value) EXCEPT !.key = "x"]

LookupInputs ==
    {KeyW("press", 100),
     Modified(KeyW("press", 100), FALSE, FALSE),
     Modified(KeyW("press", 100), TRUE, FALSE),
     KeyX("press", 100)}

BindingConfigs ==
    {<<>>,
     <<[k |-> "default", v |-> <<[k |-> "move_up", v |-> BindW]>>]>>,
     <<[k |-> "default", v |-> <<[k |-> "move_up", v |-> BindW]>>],
       [k |-> "menu", v |-> <<[k |-> "close", v |-> [array |-> <<BindW, BindCtrlW>>]]>>]>>}

----------------------------------------------------------------------------
(* A BindingMap on its own: SpecBM *)

MutatorCalls == {"addBinding", "removeBinding", "loadBindings", "setActiveContext"}

InitBM ==
    /\ bindingMap = NewBindingMap
    /\ keyBuffer = Null
    /\ comboTracker = Null
    /\ contextStack = <<>>
    /\ currentContext = NoContext
    /\ actionStates = <<>>
    /\ frameData = NewFrameData
    /\ config = DefaultConfig
    /\ initializing = FALSE
    /\ isInitialized = FALSE
    /\ isPaused = FALSE
    /\ deviceAdapters = <<>>
    /\ now = 0
    /\ events = <<>>
    /\ last = [op |-> "new"]
    /\ fed = <<>>
    /\ registered = <<>>
    /\ eventManager = Null

AddBinding ==
    \E context \in Contexts, actionName \in ActionNames, binding \in BindingArgs :
        /\ bindingMap.cacheVersion < MaxCacheVersion
        /\ bindingMap' = addBinding(bindingMap, context, actionName, binding, TRUE)
        /\ last' = [op |-> "addBinding", changed |-> TRUE]
        /\ UNCHANGED <<keyBuffer, comboTracker, managerVars, now, events, fed, registered, eventManager>>

RemoveBinding ==
    \E context \in Contexts, actionName \in ActionNames,
       binding \in BindingArgs \cup {Null} :
        /\ bindingMap.cacheVersion < MaxCacheVersion
        /\ bindingMap' = removeBinding(bindingMap, context, actionName, binding)
        /\ last' = [op |-> "removeBinding",
                    changed |-> MapHas(bindingMap.bindings, context),
                    context |-> context, actionName |-> actionName,
                    binding |-> binding]
        /\ UNCHANGED <<keyBuffer, comboTracker, managerVars, now, events, fed, registered, eventManager>>

LoadBindings ==
    \E bindingsConfig \in BindingConfigs :
        /\ bindingMap.cacheVersion < MaxCacheVersion
        /\ bindingMap' = loadBindings(bindingMap, bindingsConfig)
        /\ last' = [op |-> "loadBindings", changed |-> TRUE]
        /\ UNCHANGED <<keyBuffer, comboTracker, managerVars, now, events, fed, registered, eventManager>>

SetActiveContext ==
    \E context \in Contexts :
        /\ bindingMap.cacheVersion < MaxCacheVersion
        /\ bindingMap' = setActiveContext(bindingMap, context)
        /\ last' = [op |-> "setActiveContext",
                    changed |-> bindingMap.activeContext # context]
        /\ UNCHANGED <<keyBuffer, comboTracker, managerVars, now, events, fed, registered, eventManager>>

\* afterChange: the call before this lookup was a mutator that reached its
\* mutation (removeBinding returns at once for a context it does not know,
\* setActiveContext for the context that is already active)
MapInputToActions ==
    \E inputData \in LookupInputs, context \in Contexts \cup {NoContext} :
        LET call == mapInputToActions(bindingMap, inputData, context)
        IN /\ bindingMap' = call.bm
           /\ last' = [op |-> "mapInputToActions",
                       inputData |-> inputData,
                       context |-> IF context # NoContext THEN context
                                   ELSE bindingMap.activeContext,
                       actions |-> call.actions,
                       afterChange |-> last.op \in MutatorCalls /\ last.changed]
           /\ UNCHANGED <<keyBuffer, comboTracker, managerVars, now, events, fed, registered, eventManager>>

NextBM ==
    \/ AddBinding
    \/ RemoveBinding
    \/ LoadBindings
    \/ SetActiveContext
    \/ MapInputToActions

SpecBM == InitBM /\ [][NextBM]_vars

----------------------------------------------------------------------------
(* A key-sequence ComboTracker on its own, with the host's clock and timer
   queue: SpecKeys *)

\* the clock stops here
MaxTime == 3

\* how many inputs a tracker is given in one run
MaxFed == 3

\* how many registerCombo calls are made in one run
MaxRegistrations == 3

\* the constructor calls: with an event bus and a short timeout, with a
\* bound on the buffer as well, without a bus and with the defaults, and
\* (as the InputManager makes it) with a number where the bus is expected
KeyTrackerSetups ==
    {[eventManager |-> "bus", options |-> [timeout |-> 2]],
     [eventManager |-> "bus", options |-> [timeout |-> 2, maxSequenceLength |-> 1]],
     [eventManager |-> "bus", options |-> [timeout |-> 2, maxSequenceLength |-> 2]],
     [eventManager |-> "none", options |-> EmptyObject],
     [eventManager |-> "number", options |-> EmptyObject]}

KeyComboArgs ==
    {[comboId |-> "A", steps |-> <<"a", "b">>, callback |-> "none"],
     [comboId |-> "B", steps |-> <<"b">>, callback |-> "throws"],
     [comboId |-> "B", steps |-> <<"a", "b">>, callback |-> "returns"]}

\* processInput takes a key string or an object with a key
KeyInputs == {[string |-> "a"], [string |-> "b"], [key |-> "b"]}

\* (input && (typeof input === 'string' ? input : input.key)) || input
KeyOf(input) == IF IsString(input) THEN input.string ELSE input.key

InitKeys ==
    /\ \E setup \in KeyTrackerSetups :
          comboTracker = NewKeyTracker(setup.eventManager, setup.options)
    /\ bindingMap = Null
    /\ keyBuffer = Null
    /\ contextStack = <<>>
    /\ currentContext = NoContext
    /\ actionStates = <<>>
    /\ frameData = NewFrameData
    /\ config = DefaultConfig
    /\ initializing = FALSE
    /\ isInitialized = FALSE
    /\ isPaused = FALSE
    /\ deviceAdapters = <<>>
    /\ now = 0
    /\ events = <<>>
    /\ last = [op |-> "new"]
    /\ fed = <<>>
    /\ registered = <<>>
    /\ eventManager = Null

Keys_RegisterCombo ==
    \E call \in KeyComboArgs :
        /\ Len(registered) < MaxRegistrations
        /\ comboTracker' = KeyTracker_registerCombo(comboTracker, call.comboId,
                                                    call.steps, call.callback)
        /\ registered' = Append(registered, call.comboId)
        /\ events' = <<>>
        /\ last' = [op |-> "registerCombo"]
        /\ UNCHANGED <<bindingMap, keyBuffer, managerVars, now, fed, eventManager>>

Keys_UnregisterCombo ==
    \E comboId \in {"A", "B"} :
        /\ MapHas(comboTracker.combos, comboId)
        /\ comboTracker' = KeyTracker_unregisterCombo(comboTracker, comboId)
        /\ registered' = SelectSeq(registered, LAMBDA id : id # comboId)
        /\ events' = <<>>
        /\ last' = [op |-> "unregisterCombo"]
        /\ UNCHANGED <<bindingMap, keyBuffer, managerVars, now, fed, eventManager>>

Keys_ProcessInput ==
    \E input \in KeyInputs :
        LET call == processInput(comboTracker, KeyOf(input), now)
        IN /\ Len(fed) < MaxFed
           /\ comboTracker' = call.tracker
           /\ events' = call.events
           /\ fed' = Append(fed, [key |-> KeyOf(input), at |-> now])
           /\ last' = [op |-> "processInput", callbacks |-> call.callbacks,
                       threw |-> call.threw]
           /\ UNCHANGED <<bindingMap, keyBuffer, managerVars, now, registered, eventManager>>

\* fed restarts when the buffer is emptied from outside: it holds the inputs
\* given since
Keys_Cleanup ==
    /\ comboTracker.buffer # <<>> \/ comboTracker.clearTimer.armed
    /\ comboTracker' = cleanup(comboTracker)
    /\ events' = <<>>
    /\ fed' = <<>>
    /\ last' = [op |-> "cleanup"]
    /\ UNCHANGED <<bindingMap, keyBuffer, managerVars, now, registered, eventManager>>

\* a timer that is due runs before the clock moves on
TimerDue == comboTracker.clearTimer.armed /\ now >= comboTracker.clearTimer.due

Keys_TimerFire ==
    /\ TimerDue
    /\ comboTracker' = TimerCallback(comboTracker)
    /\ events' = <<>>
    /\ last' = [op |-> "timer"]
    /\ UNCHANGED <<bindingMap, keyBuffer, managerVars, now, fed, registered, eventManager>>

Keys_Tick ==
    /\ now < MaxTime
    /\ ~TimerDue
    /\ now' = now + 1
    /\ events' = <<>>
    /\ last' = [op |-> "tick"]
    /\ UNCHANGED <<bindingMap, keyBuffer, comboTracker, managerVars, fed, registered, eventManager>>

NextKeys ==
    \/ Keys_RegisterCombo
    \/ Keys_UnregisterCombo
    \/ Keys_ProcessInput
    \/ Keys_Cleanup
    \/ Keys_TimerFire
    \/ Keys_Tick

SpecKeys == InitKeys /\ [][NextKeys]_vars

----------------------------------------------------------------------------
(* A step-based ComboTracker on its own, with the host's clock: SpecSteps *)

\* how many sequence ids a tracker hands out in one run
MaxSequenceId == 4

\* the constructor's argument: a short timeout, or none
StepTrackerTimeouts == {2, StepTrackerDefaultTimeout}

KeyStep(key) == [key |-> key]

\* a, b with its own timeout; the one-step b given as a string; a then an
\* optional b, several instances allowed; the one-step a
StepComboArgs ==
    {[comboId |-> "A",
      config |-> [steps |-> <<KeyStep("a"), KeyStep("b")>>, timeout |-> 2]],
     [comboId |-> "B",
      config |-> [steps |-> <<BindingString(<< <<"b">> >>)>>]],
     [comboId |-> "B",
      config |-> [name |-> "dash",
                  steps |-> <<KeyStep("a"), KeyStep("b") @@ [optional |-> TRUE]>>,
                  allowMultiple |-> TRUE]],
     [comboId |-> "A",
      config |-> [steps |-> <<KeyStep("a")>>]]}

PressOf(key) ==
    [deviceType |-> "keyboard", inputType |-> "key", key |-> key,
     type |-> "press", value |-> 100]

StepInputs == {PressOf("a"), PressOf("b")}

InitSteps ==
    /\ \E defaultTimeout \in StepTrackerTimeouts :
          comboTracker = NewStepTracker(defaultTimeout)
    /\ bindingMap = Null
    /\ keyBuffer = Null
    /\ contextStack = <<>>
    /\ currentContext = NoContext
    /\ actionStates = <<>>
    /\ frameData = NewFrameData
    /\ config = DefaultConfig
    /\ initializing = FALSE
    /\ isInitialized = FALSE
    /\ isPaused = FALSE
    /\ deviceAdapters = <<>>
    /\ now = 0
    /\ events = <<>>
    /\ last = [op |-> "new"]
    /\ fed = <<>>
    /\ registered = <<>>
    /\ eventManager = Null

\* fed restarts when the registry or the instances are changed from outside:
\* it holds the inputs given since
Steps_RegisterCombo ==
    \E call \in StepComboArgs :
        /\ comboTracker' = registerCombo(comboTracker, call.comboId, call.config)
        /\ fed' = <<>>
        /\ last' = [op |-> "registerCombo"]
        /\ UNCHANGED <<bindingMap, keyBuffer, managerVars, now, events, registered, eventManager>>

Steps_UnregisterCombo ==
    \E comboId \in {"A", "B"} :
        /\ MapHas(comboTracker.combos, comboId)
        /\ comboTracker' = unregisterCombo(comboTracker, comboId)
        /\ fed' = <<>>
        /\ last' = [op |-> "unregisterCombo"]
        /\ UNCHANGED <<bindingMap, keyBuffer, managerVars, now, events, registered, eventManager>>

\* before, afterUpdate and afterStart are activeSequences as the call found
\* it, as updateActiveSequences left it and as startNewSequences left it
Steps_CheckForCombo ==
    \E inputData \in StepInputs :
        LET call == checkForCombo(comboTracker, inputData, now)
            updated == updateActiveSequences(comboTracker, inputData, now)
            started == startNewSequences(updated.tracker, inputData, now)
        IN /\ Len(fed) < MaxFed
           /\ comboTracker.nextSequenceId < MaxSequenceId
           /\ comboTracker' = call.tracker
           /\ fed' = Append(fed, [input |-> inputData, at |-> now])
           /\ last' = [op |-> "checkForCombo",
                       inputData |-> inputData,
                       at |-> now,
                       before |-> comboTracker.activeSequences,
                       afterUpdate |-> updated.tracker.activeSequences,
                       afterStart |-> IF updated.threw THEN <<>>
                                      ELSE started.activeSequences,
                       result |-> call.result,
                       threw |-> call.threw]
           /\ UNCHANGED <<bindingMap, keyBuffer, managerVars, now, events, registered, eventManager>>

Steps_Update ==
    /\ comboTracker' = StepTracker_update(comboTracker, now)
    /\ last' = [op |-> "update"]
    /\ UNCHANGED <<bindingMap, keyBuffer, managerVars, now, events, fed, registered, eventManager>>

Steps_ClearActiveSequences ==
    /\ comboTracker.activeSequences # <<>>
    /\ comboTracker' = clearActiveSequences(comboTracker)
    /\ fed' = <<>>
    /\ last' = [op |-> "clearActiveSequences"]
    /\ UNCHANGED <<bindingMap, keyBuffer, managerVars, now, events, registered, eventManager>>

Steps_Tick ==
    /\ now < MaxTime
    /\ now' = now + 1
    /\ last' = [op |-> "tick"]
    /\ UNCHANGED <<bindingMap, keyBuffer, comboTracker, managerVars, events, fed,
                   registered, eventManager>>

NextSteps ==
    \/ Steps_RegisterCombo
    \/ Steps_UnregisterCombo
    \/ Steps_CheckForCombo
    \/ Steps_Update
    \/ Steps_ClearActiveSequences
    \/ Steps_Tick

SpecSteps == InitSteps /\ [][NextSteps]_vars

----------------------------------------------------------------------------
(* An InputManager with an event bus, its components, the host's clock and
   the callers of its public methods: Spec *)

\* how many frames update() counts in one run
MaxFrames == 1

\* how deep the context stack gets in one run
MaxStackDepth == 1

\* how many raw inputs a manager is given in one run
MaxRawInputs == 2

Manager ==
    [bindingMap |-> bindingMap, keyBuffer |-> keyBuffer,
     comboTracker |-> comboTracker, contextStack |-> contextStack,
     currentContext |-> currentContext, actionStates |-> actionStates,
     frameData |-> frameData, config |-> config,
     isInitialized |-> isInitialized, isPaused |-> isPaused,
     deviceAdapters |-> deviceAdapters]

Becomes(im) ==
    /\ bindingMap' = im.bindingMap
    /\ keyBuffer' = im.keyBuffer
    /\ comboTracker' = im.comboTracker
    /\ contextStack' = im.contextStack
    /\ currentContext' = im.currentContext
    /\ actionStates' = im.actionStates
    /\ frameData' = im.frameData
    /\ config' = im.config
    /\ isInitialized' = im.isInitialized
    /\ isPaused' = im.isPaused
    /\ deviceAdapters' = im.deviceAdapters

\* the two classes './ComboTracker.js' may be
TrackerClasses == {"keys", "steps"}

\* initialize() is called without options
InitializeOptions == {EmptyObject}

\* key w bound to move_up in the context default
MoveUpConfig ==
    [bindings |-> <<[k |-> "default", v |-> <<[k |-> "move_up", v |-> BindW]>>]>>]

Throws == [throws |-> TRUE]

\* what the ConfigProvider yields, attempt by attempt
ProviderOutcomes ==
    {<<MoveUpConfig>>, <<Null>>, <<Throws, Throws, Throws>>}

Keyboard == [string |-> "keyboard"]

\* w pressed and released by the keyboard, and a call without a device type
RawCalls ==
    {[deviceType |-> Keyboard, inputData |-> KeyW("press", 100)],
     [deviceType |-> Keyboard, inputData |-> KeyW("release", 0)],
     [deviceType |-> Null, inputData |-> KeyW("press", 100)]}

\* a one-step combo on the key w, for either class
ManagerComboSteps == <<KeyStep("w")>>

Init ==
    /\ bindingMap = Null
    /\ keyBuffer = Null
    /\ comboTracker = Null
    /\ contextStack = <<>>
    /\ currentContext = NoContext
    /\ actionStates = <<>>
    /\ frameData = NewFrameData
    /\ config = DefaultConfig
    /\ initializing = FALSE
    /\ isInitialized = FALSE
    /\ isPaused = FALSE
    /\ deviceAdapters = <<>>
    /\ now = 0
    /\ events = <<>>
    /\ last = [op |-> "new"]
    /\ fed = <<>>
    /\ registered = <<>>
    /\ eventManager = Null

\* initialize() up to its await; a second call on an initialized manager
\* throws before it does anything.  A manager is initialized once in a run:
\* it is not initialized again after dispose().
Initialize ==
    /\ ~initializing
    /\ \E options \in InitializeOptions, trackerClass \in TrackerClasses :
        /\ comboTracker # Null =>
              isInitialized /\ trackerClass = comboTracker.class
        /\ \E call \in {initialize(Manager, options, trackerClass)} :
           /\ Becomes(call.im)
           /\ initializing' = ~call.threw
           /\ events' = <<>>
           /\ last' = [op |-> "initialize", threw |-> call.threw]
           /\ UNCHANGED <<now, fed, registered, eventManager>>

\* initialize() from its await on
InitializeResumes ==
    /\ initializing
    /\ \E outcomes \in ProviderOutcomes :
        \E call \in {initializeFinish(Manager, outcomes)} :
           /\ Becomes(call.im)
           /\ initializing' = FALSE
           /\ events' = call.events
           /\ last' = [op |-> "initialized"]
           /\ UNCHANGED <<now, fed, registered, eventManager>>

ProcessRawInput ==
    /\ Len(fed) < MaxRawInputs
    /\ comboTracker # Null /\ comboTracker.class = "steps"
          => comboTracker.nextSequenceId < MaxSequenceId
    /\ \E raw \in RawCalls :
      \E deviceType \in {raw.deviceType}, inputData \in {raw.inputData} :
        \E call \in {processRawInput(Manager, deviceType, inputData, now)} :
           /\ Becomes(call.im)
           /\ events' = call.events
           /\ fed' = Append(fed, [at |-> now])
           /\ last' = [op |-> "processRawInput",
                       inputData |-> inputData,
                       typed |-> IsString(deviceType) /\ ~IsString(inputData),
                       accepted |-> /\ IsString(deviceType) /\ ~IsString(inputData)
                                    /\ isInitialized /\ ~isPaused,
                       trace |-> call.trace,
                       combo |-> call.combo,
                       before |-> [actionStates |-> actionStates,
                                   bindingMap |-> bindingMap]]
           /\ UNCHANGED <<initializing, now, registered, eventManager>>

\* a frame: the clock has moved on by one and the host calls update(1)
Update ==
    /\ now < MaxFrames
    /\ \E call \in {update(Manager, 1, now + 1)} :
       /\ now' = now + 1
       /\ Becomes(call.im)
       /\ events' = call.events
       /\ last' = [op |-> "update", threw |-> call.threw]
       /\ UNCHANGED <<initializing, fed, registered, eventManager>>

\* follows: the call before this one, when that was a processRawInput
UpdateActionStates ==
    \E call \in {updateActionStates(Manager)} :
       /\ Becomes(call.im)
       /\ events' = call.events
       /\ last' = [op |-> "updateActionStates",
                   follows |-> IF last.op = "processRawInput" THEN last
                               ELSE [op |-> last.op]]
       /\ UNCHANGED <<initializing, now, fed, registered, eventManager>>

\* callers change the context and pause on an initialized manager
PushContext ==
    /\ isInitialized
    /\ Len(contextStack) < MaxStackDepth
    /\ bindingMap # Null => bindingMap.cacheVersion < MaxCacheVersion
    /\ \E contextName \in Contexts :
        \E call \in {pushContext(Manager, contextName)} :
           /\ Becomes(call.im)
           /\ events' = call.events
           /\ last' = [op |-> "pushContext"]
           /\ UNCHANGED <<initializing, now, fed, registered, eventManager>>

PopContext ==
    /\ isInitialized
    /\ bindingMap # Null => bindingMap.cacheVersion < MaxCacheVersion
    /\ \E call \in {popContext(Manager)} :
       /\ Becomes(call.im)
       /\ events' = call.events
       /\ last' = [op |-> "popContext"]
       /\ UNCHANGED <<initializing, now, fed, registered, eventManager>>

SetPaused ==
    /\ isInitialized
    /\ \E paused \in BOOLEAN \ {isPaused} :
        \E call \in {setPaused(Manager, paused)} :
           /\ Becomes(call.im)
           /\ events' = call.events
           /\ last' = [op |-> "setPaused"]
           /\ UNCHANGED <<initializing, now, fed, registered, eventManager>>

Dispose ==
    \E call \in {dispose(Manager)} :
       /\ Becomes(call.im)
       /\ events' = call.events
       /\ last' = [op |-> "dispose"]
       /\ UNCHANGED <<initializing, now, fed, registered, eventManager>>

\* a caller binds a key through manager.bindingMap
Manager_AddBinding ==
    \E actionName \in {"move_up"} :
        /\ bindingMap # Null
        /\ bindingMap.cacheVersion < MaxCacheVersion
        /\ bindingMap' = addBinding(bindingMap, "default", actionName, BindW, TRUE)
        /\ events' = <<>>
        /\ last' = [op |-> "addBinding"]
        /\ UNCHANGED <<keyBuffer, comboTracker, managerVars, now, fed, registered, eventManager>>

\* a caller registers a combo through manager.comboTracker
Manager_RegisterCombo ==
    /\ comboTracker # Null
    /\ ~MapHas(comboTracker.combos, "dash")
    /\ comboTracker' =
          IF comboTracker.class = "keys"
          THEN KeyTracker_registerCombo(comboTracker, "dash",
                                        <<ManagerComboSteps[1].key>>, "none")
          ELSE registerCombo(comboTracker, "dash", [steps |-> ManagerComboSteps])
    /\ events' = <<>>
    /\ last' = [op |-> "registerCombo"]
    /\ UNCHANGED <<bindingMap, keyBuffer, managerVars, now, fed, registered, eventManager>>

Next ==
    \/ Initialize
    \/ InitializeResumes
    \/ ProcessRawInput
    \/ Update
    \/ UpdateActionStates
    \/ PushContext
    \/ PopContext
    \/ SetPaused
    \/ Dispose
    \/ Manager_AddBinding
    \/ Manager_RegisterCombo

Spec == Init /\ [][Next]_vars

----------------------------------------------------------------------------
(* Claims about the BindingMap, checked under SpecBM *)

NamesOf(actions) == {actions[i].name : i \in DOMAIN actions}

ContextMapOf(bm, context) ==
    IF MapHas(bm.bindings, context) THEN MapGet(bm.bindings, context) ELSE <<>>

\* every binding entry of a context, whatever its key
EntriesOf(bm, context) ==
    UNION {Range(e.v) : e \in Range(ContextMapOf(bm, context))}

Looked == last.op = "mapInputToActions"

RequiresCtrl(entry) ==
    "ctrl" \in DOMAIN entry.modifiers /\ entry.modifiers["ctrl"]

InputModifier(inputData, m) ==
    /\ Has(inputData, "modifiers")
    /\ m \in DOMAIN inputData.modifiers
    /\ inputData.modifiers[m]

SameKey(inputData, entry) ==
    /\ inputData.deviceType = entry.deviceType
    /\ inputData.inputType = entry.inputType
    /\ inputData.key = entry.key

\* C4 (modifier exactness): in every reachable state, a lookup of an input
\* that lacks ctrl returns no action on account of a binding that requires
\* ctrl, and a lookup of an input with ctrl (and no other modifier) returns
\* the action of every binding of its key that requires ctrl.
C4_ModifierExactness ==
    Looked =>
        LET entries == EntriesOf(bindingMap, last.context)
            inputData == last.inputData
            names == NamesOf(last.actions)
        IN \A entry \in entries :
            (RequiresCtrl(entry) /\ SameKey(inputData, entry)) =>
                /\ (~InputModifier(inputData, "ctrl") /\ entry.actionName \in names)
                      => \E other \in entries :
                            /\ other.actionName = entry.actionName
                            /\ ~RequiresCtrl(other)
                            /\ matchesBinding(inputData, other)
                /\ (InputModifier(inputData, "ctrl")
                    /\ ~InputModifier(inputData, "shift"))
                      => entry.actionName \in names

\* C5 (context isolation): a lookup under a context returns only actions
\* bound in that context, and returns the action of every binding of the
\* input's bare key in that context, whatever was looked up before under
\* this or another context.
C5_ContextIsolation ==
    Looked =>
        LET entries == EntriesOf(bindingMap, last.context)
            inputData == last.inputData
            names == NamesOf(last.actions)
        IN /\ \A name \in names :
                \E entry \in entries :
                    entry.actionName = name /\ SameKey(inputData, entry)
           /\ \A entry \in entries :
                (/\ SameKey(inputData, entry)
                 /\ ActiveModifierKeys(entry.modifiers) = <<>>
                 /\ entry.conditions = EmptyObject)
                    => entry.actionName \in names

\* the key w is bound to move_up in default only and to close in menu only,
\* both contexts have been looked up (both results are memoized), and the
\* last lookup, under menu, returned close alone
C5_Witness ==
    /\ Looked /\ last.context = "menu"
    /\ {e.actionName : e \in EntriesOf(bindingMap, "default")} = {"move_up"}
    /\ {e.actionName : e \in EntriesOf(bindingMap, "menu")} = {"close"}
    /\ NamesOf(last.actions) = {"close"}
    /\ Cardinality(DOMAIN bindingMap.bindingCache) = 2

----------------------------------------------------------------------------
(* Claims about the key-sequence ComboTracker, checked under SpecKeys *)

Processed == last.op = "processInput"

ComboEvents == OfType(events, "input:combo")

KeysFed == [i \in DOMAIN fed |-> fed[i].key]

\* the ids whose sequence is the suffix of the buffer
MatchingIds ==
    {e.k : e \in {x \in Range(comboTracker.combos) :
                    SuffixMatches(comboTracker.buffer, x.v.sequence)}}

\* the position of the latest registerCombo call made for an id
LatestCall(comboId) ==
    CHOOSE i \in DOMAIN registered :
        /\ registered[i] = comboId
        /\ \A j \in (i + 1)..Len(registered) : registered[j] # comboId

IsStrictPrefix(p, s) == Len(p) < Len(s) /\ p = SubSeq(s, 1, Len(p))

\* C7 (exact suffix): with one registered combo S on a tracker that has an
\* event bus, processInput emits an input:combo event if and only if the
\* last |S| keys of the buffer, the input included, equal S; the event
\* carries S; and as long as the keys fed are a strict prefix of S nothing
\* is emitted.
C7_ExactSuffix ==
    (/\ Processed
     /\ comboTracker.eventManager = "bus"
     /\ Len(comboTracker.combos) = 1
     /\ comboTracker.combos[1].v.sequence # <<>>)
        => LET S == comboTracker.combos[1].v.sequence
               buffer == comboTracker.buffer
           IN /\ Len(events) <= 1
              /\ (Len(ComboEvents) = 1) <=>
                    (Len(buffer) >= Len(S)
                     /\ SubSeq(buffer, Len(buffer) - Len(S) + 1, Len(buffer)) = S)
              /\ \A i \in DOMAIN ComboEvents :
                    /\ ComboEvents[i].payload.data.sequence = S
                    /\ ComboEvents[i].payload.data.name = comboTracker.combos[1].k
              /\ IsStrictPrefix(KeysFed, S) => events = <<>>

\* the combo a, b alone is registered; the wrong key b, then a, then b have
\* been fed and the last of them emitted the combo
C7_Witness ==
    /\ Processed
    /\ comboTracker.eventManager = "bus"
    /\ MapKeys(comboTracker.combos) = <<"A">>
    /\ KeysFed = <<"b", "a", "b">>
    /\ Len(ComboEvents) = 1
    /\ ComboEvents[1].payload.data.sequence = <<"a", "b">>

\* the prefix a of the one registered combo has been fed and nothing emitted
C7_PrefixWitness ==
    /\ Processed
    /\ comboTracker.eventManager = "bus"
    /\ MapKeys(comboTracker.combos) = <<"A">>
    /\ KeysFed = <<"a">>
    /\ events = <<>>

\* C8 (tie-break): when the buffer's suffix matches more than one registered
\* combo on an input, exactly one input:combo event is emitted and it names
\* the matching combo whose latest registerCombo call is the most recent.
C8_TieBreak ==
    (/\ Processed
     /\ comboTracker.eventManager = "bus"
     /\ Cardinality(MatchingIds) > 1)
        => /\ Len(ComboEvents) = 1
           /\ \A other \in MatchingIds :
                LatestCall(other) <= LatestCall(ComboEvents[1].payload.data.name)

\* the time between the last n inputs fed, pairwise
Gaps(n) ==
    {fed[i + 1].at - fed[i].at : i \in (Len(fed) - n + 1)..(Len(fed) - 1)}

FitsBuffer(n) ==
    comboTracker.maxSequenceLength = 0 \/ n <= comboTracker.maxSequenceLength

\* The combo timeout on the key-sequence tracker: an emitted combo was fed
\* with no gap longer than the timeout; a combo that fits the buffer and is
\* fed with every gap shorter than the timeout is answered by an emitted
\* combo; and every processInput re-arms the timer a full timeout ahead.
Keys_ComboTimeout ==
    (Processed /\ comboTracker.eventManager = "bus") =>
        /\ \A i \in DOMAIN ComboEvents :
              LET n == Len(ComboEvents[i].payload.data.sequence)
              IN /\ Len(fed) >= n
                 /\ \A gap \in Gaps(n) : gap <= comboTracker.defaultTimeout
        /\ \A e \in Range(comboTracker.combos) :
              LET S == e.v.sequence
              IN (/\ S # <<>>
                  /\ FitsBuffer(Len(S))
                  /\ Len(fed) >= Len(S)
                  /\ SubSeq(KeysFed, Len(fed) - Len(S) + 1, Len(fed)) = S
                  /\ \A gap \in Gaps(Len(S)) : gap < comboTracker.defaultTimeout)
                    => Len(ComboEvents) = 1
        /\ comboTracker.clearTimer =
              [armed |-> TRUE, due |-> now + comboTracker.defaultTimeout]

----------------------------------------------------------------------------
(* Claims about the step-based ComboTracker, checked under SpecSteps *)

Checked == last.op = "checkForCombo"

Reported == Checked /\ ~last.threw /\ last.result # Null

CompletedAt(sequences) == {i \in DOMAIN sequences : sequences[i].v.completed}

\* the last n inputs match the steps one for one
FedMatches(steps) ==
    /\ Len(fed) >= Len(steps)
    /\ \A i \in DOMAIN steps :
          matchesComboStep(fed[Len(fed) - Len(steps) + i].input, steps[i])

\* C6 (combo timeout), on the step-based tracker: an input that comes more
\* than the timeout after the one before it does not complete a combo of
\* several steps; and when the most recent inputs match the steps of a
\* registered combo (none optional) one for one, each less than the timeout
\* after the one before, checkForCombo reports a combo on the last of them.
C6_ComboTimeout ==
    Checked =>
        \A e \in Range(comboTracker.combos) :
            LET S == e.v.steps
            IN /\ (/\ Len(S) >= 2
                   /\ Len(fed) >= 2
                   /\ \E gap \in Gaps(2) : gap > e.v.timeout)
                     => ~(Reported /\ last.result.comboId = e.k)
               /\ (/\ \A i \in DOMAIN S : ~S[i].optional
                   /\ FedMatches(S)
                   /\ \A gap \in Gaps(Len(S)) : gap < e.v.timeout)
                     => Reported

\* C9 (transition rule): on each input every active instance is handled in
\* exactly one way: removed when it has timed out; else advanced by one
\* step, its lastInputTime refreshed, when the input matches its step at
\* currentStep; else removed when that step is not optional; else left as
\* it was.
C9_TransitionRule ==
    Checked =>
        /\ ~last.threw
        /\ \A i \in DOMAIN last.before :
              LET sequence == last.before[i].v
                  kept == MapHas(last.afterUpdate, sequence.id)
                  after == MapGet(last.afterUpdate, sequence.id)
                  step == sequence.steps[sequence.currentStep + 1]
              IN IF TimedOut(sequence, last.at) THEN ~kept
                 ELSE IF StepMissing(sequence) THEN FALSE
                 ELSE IF matchesComboStep(last.inputData, step)
                 THEN /\ kept
                      /\ after.currentStep = sequence.currentStep + 1
                      /\ after.lastInputTime = last.at
                 ELSE IF ~step.optional THEN ~kept
                 ELSE kept /\ after = sequence

\* C10 (completion): a checkForCombo call that returns reports nothing when
\* no instance is completed, and otherwise reports one combo, that of the
\* first completed instance in the iteration order of activeSequences, and
\* leaves activeSequences without that instance and otherwise as it was.
C10_OneCompletion ==
    (Checked /\ ~last.threw) =>
        LET completed == CompletedAt(last.afterStart)
            first == CHOOSE i \in completed : \A j \in completed : i <= j
        IN IF completed = {} THEN last.result = Null
           ELSE /\ last.result # Null
                /\ last.result.sequence = last.afterStart[first].v
                /\ last.result.comboId = last.afterStart[first].v.comboId
                /\ comboTracker.activeSequences =
                      SelectSeq(last.afterStart,
                                LAMBDA e : e.k # last.afterStart[first].k)

\* two instances completed on one input and the call reported the first
C10_Witness ==
    /\ Reported
    /\ Cardinality(CompletedAt(last.afterStart)) = 2
    /\ last.result.sequence.id = last.afterStart[1].k
    /\ Len(comboTracker.activeSequences) = Len(last.afterStart) - 1

----------------------------------------------------------------------------
(* Claims about the InputManager, checked under Spec *)

\* the last call was a processRawInput with valid parameters on a manager
\* that was initialized and not paused
Accepted == last.op = "processRawInput" /\ last.accepted

\* where a component call stands in the last call's trace (0 when absent)
PlaceOf(componentCall) ==
    IF \E i \in DOMAIN last.trace : last.trace[i] = componentCall
    THEN CHOOSE i \in DOMAIN last.trace : last.trace[i] = componentCall
    ELSE 0

\* the entry the history buffer wrote last
LastBuffered ==
    keyBuffer.buffer[(keyBuffer.writeIndex + keyBuffer.bufferSize - 1)
                        % keyBuffer.bufferSize]

\* what the bindings of the current context resolve the last input to
BoundActions ==
    ResolveActions(ContextMapOf(bindingMap, currentContext), last.inputData)

\* C1 (order within processRawInput): the input is appended to the history
\* buffer before the combo matcher is consulted, and the combo matcher is
\* consulted before the binding table; when the matcher reports a completed
\* combo, exactly one input:combo event is emitted, the binding table is not
\* consulted and no action state changes.
C1_PipelineOrder ==
    Accepted =>
        /\ PlaceOf(HistoryCall) = 1
        /\ PlaceOf(ComboCall) = 2
        /\ PlaceOf(BindingCall) \in {0, 3}
        /\ Len(last.trace) <= 3
        /\ LastBuffered # Null /\ LastBuffered.key = last.inputData.key
        /\ last.combo # Null =>
              /\ events = <<Event("input:combo", last.combo)>>
              /\ PlaceOf(BindingCall) = 0
              /\ actionStates = last.before.actionStates
              /\ bindingMap = last.before.bindingMap

\* the input completed a combo while its key is bound to an action in the
\* current context
C1_Witness ==
    /\ Accepted
    /\ last.combo # Null
    /\ BoundActions # <<>>

\* the input completed no combo and went on to the binding table
C1_ResolvedWitness ==
    /\ Accepted
    /\ last.combo = Null
    /\ PlaceOf(BindingCall) = 3
    /\ isActionPressed(Manager, "move_up")

\* one binding, of w to move_up, answers a press of w in the context
\* default, which is current, and no combo is registered
MoveUpBound ==
    /\ bindingMap # Null /\ comboTracker # Null
    /\ currentContext = "default"
    /\ NamesOf(ResolveActions(ContextMapOf(bindingMap, "default"),
                              KeyW("press", 100))) = {"move_up"}
    /\ Len(ResolveActions(ContextMapOf(bindingMap, "default"),
                          KeyW("press", 100))) = 1
    /\ comboTracker.combos = <<>>

PressedW(call) ==
    /\ call.op = "processRawInput" /\ call.accepted
    /\ call.inputData = KeyW("press", 100)
    /\ ~\E e \in Range(call.before.actionStates) : e.k = "move_up" /\ e.v.isPressed

\* C2 (end to end): with w bound to move_up in the context default on a
\* manager initialized with the components initialize() constructs,
\* processRawInput of a press of w makes isActionPressed('move_up') true, and
\* the updateActionStates that follows emits exactly one
\* input:action_pressed, {action: 'move_up', value: 1}.
C2_EndToEnd ==
    /\ (PressedW(last) /\ MoveUpBound) => isActionPressed(Manager, "move_up")
    /\ (/\ last.op = "updateActionStates"
        /\ PressedW(last.follows)
        /\ MoveUpBound)
          => OfType(events, "input:action_pressed") =
                <<Event("input:action_pressed",
                        [action |-> "move_up", value |-> 100])>>

----------------------------------------------------------------------------
(* Claims about the instances the step-based tracker keeps. *)

\* the instances of a combo that activeSequences holds
InstancesOf(comboId) ==
    {i \in DOMAIN comboTracker.activeSequences :
        comboTracker.activeSequences[i].v.comboId = comboId}

\* C11 (one instance per combo): in every state of the step-based tracker,
\* activeSequences holds at most one instance of each registered combo that
\* does not allow multiple instances.
C11_OneInstance ==
    \A e \in Range(comboTracker.combos) :
        ~e.v.allowMultiple => Cardinality(InstancesOf(e.k)) <= 1

----------------------------------------------------------------------------
(* Claims about the callbacks of the key-sequence tracker. *)

\* the last processInput completed a combo whose callback threw
CallbackThrew ==
    /\ Processed
    /\ last.callbacks # <<>>
    /\ MapGet(comboTracker.combos, last.callbacks[1]).callback = "throws"

\* the event of the completion the last input made
CompletionEvent(comboId) ==
    Event("input:combo",
          [data |-> [name |-> comboId,
                     sequence |-> MapGet(comboTracker.combos, comboId).sequence,
                     timestamp |-> now]])

\* C12 (callback isolation): when the callback of a completed combo throws,
\* processInput does not throw; a tracker with an event bus has emitted the
\* input:combo event of that completion, exactly once; the buffer keeps the
\* input and the purge timer is armed as after any input; and the next
\* processInput is matched as ever: it emits an event exactly when some
\* registered sequence is the suffix of the buffer.
C12_CallbackIsolation ==
    /\ [](CallbackThrew =>
            /\ ~last.threw
            /\ comboTracker.eventManager = "bus" =>
                  events = <<CompletionEvent(last.callbacks[1])>>
            /\ comboTracker.buffer # <<>>
            /\ comboTracker.buffer[Len(comboTracker.buffer)] = fed[Len(fed)].key
            /\ comboTracker.clearTimer =
                  [armed |-> TRUE, due |-> now + comboTracker.defaultTimeout])
    /\ [][(CallbackThrew /\ Processed') =>
            /\ ~last'.threw
            /\ comboTracker.eventManager = "bus" =>
                  ((ComboEvents' # <<>>) <=> (MatchingIds' # {}))]_vars

\* a combo with a throwing callback completed on a tracker with a bus
C12_Witness ==
    /\ CallbackThrew
    /\ comboTracker.eventManager = "bus"
    /\ ComboEvents # <<>>

----------------------------------------------------------------------------
(* The context stack of an InputManager, pushed and popped to some depth:
   SpecContexts.  fed holds, for every pushContext not yet popped, the
   context and the stack it found. *)

\* how many pushContext calls are pending at once
MaxPushes == 3

\* how many times the active context of the binding map changes in one run
MaxContextSwitches == 6

Ctx_PushContext ==
    \E contextName \in Contexts :
        \E call \in {pushContext(Manager, contextName)} :
           /\ isInitialized
           /\ Len(fed) < MaxPushes
           /\ bindingMap # Null => bindingMap.cacheVersion < MaxContextSwitches
           /\ Becomes(call.im)
           /\ events' = call.events
           /\ fed' = Append(fed, [currentContext |-> currentContext,
                                  contextStack |-> contextStack])
           /\ last' = [op |-> "pushContext", contextName |-> contextName]
           /\ UNCHANGED <<initializing, now, registered, eventManager>>

\* matched is what the matching pushContext found: Null when every push has
\* been popped already
Ctx_PopContext ==
    \E call \in {popContext(Manager)} :
       /\ isInitialized
       /\ bindingMap # Null => bindingMap.cacheVersion < MaxContextSwitches
       /\ Becomes(call.im)
       /\ events' = call.events
       /\ fed' = IF fed = <<>> THEN fed ELSE SubSeq(fed, 1, Len(fed) - 1)
       /\ last' = [op |-> "popContext",
                   matched |-> IF fed = <<>> THEN Null ELSE fed[Len(fed)],
                   before |-> [currentContext |-> currentContext,
                               contextStack |-> contextStack]]
       /\ UNCHANGED <<initializing, now, registered, eventManager>>

NextContexts ==
    \/ Initialize
    \/ InitializeResumes
    \/ Ctx_PushContext
    \/ Ctx_PopContext
    \/ Dispose

SpecContexts == Init /\ [][NextContexts]_vars

----------------------------------------------------------------------------
(* Claims about the context stack. *)

Popped == last.op = "popContext"

C13_EmptyWitness ==
    /\ Popped
    /\ last.before.contextStack = <<>>
    /\ isInitialized

----------------------------------------------------------------------------
(* An InputManager driven frame by frame, with device adapters that hand
   over raw input from their update, and callers that feed actions directly:
   SpecFrames *)

\* how many frames the host runs
MaxTicks == 2

\* what an adapter's next update does: hands over a press of w, hands over a
\* release of w, or throws
AdapterKinds ==
    {[inputs |-> <<KeyW("press", 100)>>, throws |-> FALSE],
     [inputs |-> <<KeyW("release", 0)>>, throws |-> FALSE],
     [inputs |-> <<>>, throws |-> TRUE]}

DeviceTypes == {"keyboard", "mouse"}

\* the actions callers feed: move_up pressed, released, and pushed past the
\* analog deadzone
ActionInputs ==
    {[name |-> "move_up", type |-> "press", value |-> 100, timestamp |-> 0],
     [name |-> "move_up", type |-> "release", value |-> 0, timestamp |-> 0],
     [name |-> "move_up", type |-> "analog", value |-> 50, timestamp |-> 0]}

Frames_RegisterAdapter ==
    /\ isInitialized
    /\ \E deviceType \in DeviceTypes, adapter \in AdapterKinds :
        /\ ~MapHas(deviceAdapters, deviceType)
        /\ \E call \in {registerAdapter(Manager, deviceType, adapter)} :
           /\ Becomes(call.im)
           /\ events' = call.events
           /\ last' = [op |-> "registerAdapter"]
           /\ UNCHANGED <<initializing, now, fed, registered, eventManager>>

Frames_ProcessActionInput ==
    \E action \in ActionInputs :
        \E call \in {processActionInput(Manager, action)} :
           /\ Becomes(call.im)
           /\ events' = call.events
           /\ last' = [op |-> "processActionInput", action |-> action]
           /\ UNCHANGED <<initializing, now, fed, registered, eventManager>>

\* one frame of the host: the clock moves on and update(deltaTime) runs.
\* before is the manager the call found.
Frames_Update ==
    /\ now < MaxTicks
    /\ \E call \in {update(Manager, 1, now + 1)} :
       /\ now' = now + 1
       /\ Becomes(call.im)
       /\ events' = call.events
       /\ last' = [op |-> "update", threw |-> call.threw,
                   before |-> [isInitialized |-> isInitialized,
                               isPaused |-> isPaused,
                               actionStates |-> actionStates,
                               deviceAdapters |-> deviceAdapters]]
       /\ UNCHANGED <<initializing, fed, registered, eventManager>>

NextFrames ==
    \/ Initialize
    \/ InitializeResumes
    \/ Frames_RegisterAdapter
    \/ Frames_ProcessActionInput
    \/ Frames_Update
    \/ UpdateActionStates
    \/ SetPaused

SpecFrames == Init /\ [][NextFrames]_vars

----------------------------------------------------------------------------
(* Claims about the frames of an InputManager. *)

StateOf(states, actionName) ==
    IF MapHas(states, actionName) THEN MapGet(states, actionName)
    ELSE NewActionState

TrackedActions == {"move_up"}

\* the step is an update() on a ready manager that is not paused, or the
\* updateActionStates() a caller makes in its place
IsTick ==
    \/ last'.op = "update" /\ isInitialized /\ ~isPaused
    \/ last'.op = "updateActionStates"

\* C14 (single-tick flags): once an action's press (release) transition is
\* processed, justPressed (justReleased) stays true until the update() tick
\* that follows, is false when that tick is over, and stays false until the
\* action makes a new transition.
C14_SingleTickFlags ==
    [][\A actionName \in TrackedActions :
         LET old == StateOf(actionStates, actionName)
             new == StateOf(actionStates', actionName)
         IN IF IsTick
            THEN ~new.justPressed /\ ~new.justReleased
            ELSE /\ (old.justPressed /\ new.isPressed = old.isPressed)
                        => new.justPressed
                 /\ (old.justReleased /\ new.isPressed = old.isPressed)
                        => new.justReleased
                 /\ (~old.justPressed /\ new.justPressed)
                        => (~old.isPressed /\ new.isPressed)
                 /\ (~old.justReleased /\ new.justReleased)
                        => (old.isPressed /\ ~new.isPressed)]_vars

\* the last call was an update() that found the manager ready and not paused
Updated ==
    /\ last.op = "update"
    /\ last.before.isInitialized
    /\ ~last.before.isPaused

RECURSIVE Handed(_)
\* the raw inputs the adapters hand over in one update, in adapter order
Handed(adapters) ==
    IF adapters = <<>> THEN <<>>
    ELSE (IF adapters[1].v.throws THEN <<>> ELSE adapters[1].v.inputs)
         \o Handed(Tail(adapters))

\* where the first event of one of the types is in the events (0 for none)
FirstOf(types) ==
    IF \E i \in DOMAIN events : events[i].type \in types
    THEN CHOOSE i \in DOMAIN events :
            /\ events[i].type \in types
            /\ \A j \in 1..(i - 1) : events[j].type \notin types
    ELSE 0

ActionEventTypes ==
    {"input:action_pressed", "input:action_released", "input:action_held"}

\* C15 (order within update): update() on a ready manager that is not paused
\* updates every adapter first, then runs the maintenance of the history
\* buffer and the combo matcher, then finalizes the action states: what the
\* adapters cause is reported before any action event, the just-flags are
\* clear when the call is over, and an input that an adapter hands to
\* processRawInput during the update has its input:action_pressed or
\* input:action_released event emitted by that same update.
C15_UpdateOrder ==
    Updated =>
        /\ ~last.threw
        /\ \A e \in Range(deviceAdapters) : e.v.inputs = <<>>
        /\ \A e \in Range(actionStates) : ~e.v.justPressed /\ ~e.v.justReleased
        /\ \A i \in DOMAIN events :
              (FirstOf(ActionEventTypes) # 0 /\ i > FirstOf(ActionEventTypes))
                 => events[i].type \in ActionEventTypes
        /\ (/\ Handed(last.before.deviceAdapters) = <<KeyW("press", 100)>>
            /\ MoveUpBound
            /\ ~StateOf(last.before.actionStates, "move_up").isPressed)
              => /\ OfType(events, "input:action_pressed") =
                       <<Event("input:action_pressed",
                               [action |-> "move_up", value |-> 100])>>
                 /\ isActionPressed(Manager, "move_up")
        /\ (/\ Handed(last.before.deviceAdapters) = <<KeyW("release", 0)>>
            /\ MoveUpBound
            /\ StateOf(last.before.actionStates, "move_up").isPressed)
              => /\ OfType(events, "input:action_released") =
                       <<Event("input:action_released", [action |-> "move_up"])>>
                 /\ ~isActionPressed(Manager, "move_up")

----------------------------------------------------------------------------
(* Claims about the life cycle of an InputManager. *)

\* C16 (initialize once): initialize() on a manager that is initialized is
\* rejected with an error, and leaves the components, the context stack, the
\* current context and the initialized flag as they were.
C16_InitializeOnce ==
    [][(isInitialized /\ last'.op = "initialize") =>
          /\ last'.threw
          /\ isInitialized'
          /\ UNCHANGED <<bindingMap, keyBuffer, comboTracker, contextStack,
                         currentContext, deviceAdapters, actionStates, config>>]_vars

\* initialize() was rejected on a manager that has a binding, a context on
\* its stack and an input in its history buffer
C16_Witness ==
    /\ last.op = "initialize"
    /\ last.threw
    /\ isInitialized
    /\ contextStack # <<>>
    /\ keyBuffer.count > 0
    /\ EntriesOf(bindingMap, "default") # {}

\* the step is an update(deltaTime), or a processRawInput whose deviceType is
\* a string and whose input is an object
IsFrameCall ==
    \/ last'.op = "update"
    \/ last'.op = "processRawInput" /\ last'.typed

\* C17 (idle manager): while the manager is uninitialized or paused,
\* update(deltaTime) and a well-typed processRawInput change nothing of the
\* manager (frame data, history buffer, combo matcher, binding table, action
\* states, adapters, contexts) and emit no event.
C17_IdleNoOp ==
    [][((~isInitialized \/ isPaused) /\ IsFrameCall) =>
          /\ events' = <<>>
          /\ UNCHANGED <<frameData, keyBuffer, comboTracker, bindingMap,
                         actionStates, deviceAdapters, contextStack,
                         currentContext, config, isInitialized, isPaused>>]_vars

\* a press of the bound key w was given to a paused manager and ignored
C17_Witness ==
    /\ last.op = "processRawInput"
    /\ last.typed
    /\ last.inputData = KeyW("press", 100)
    /\ isInitialized /\ isPaused
    /\ MoveUpBound
    /\ comboTracker.class = "steps"
    /\ events = <<>>

\* update() was called on a paused manager that holds a pressed action
C17_UpdateWitness ==
    /\ last.op = "update"
    /\ isInitialized /\ isPaused
    /\ isActionPressed(Manager, "move_up")

----------------------------------------------------------------------------
(* processRawInput with arguments of the wrong type: src/unnamed/part_007,
   lines 307-335, checked under SpecRaw.  typeof null is 'object', so that a
   null input passes the type check of line 309. *)

MaxRawCalls == 3

\* processRawInput(123, input), processRawInput('keyboard', 'w'),
\* processRawInput('keyboard', null), processRawInput(123, null), and a
\* call that is well typed
IllTypedCalls ==
    {[deviceType |-> Null, inputData |-> KeyW("press", 100)],
     [deviceType |-> Keyboard, inputData |-> [string |-> "w"]],
     [deviceType |-> Keyboard, inputData |-> Null],
     [deviceType |-> Null, inputData |-> Null],
     [deviceType |-> Keyboard, inputData |-> KeyW("press", 100)]}

Raw_ProcessRawInput ==
    /\ Len(fed) < MaxRawCalls
    /\ comboTracker # Null /\ comboTracker.class = "steps"
          => comboTracker.nextSequenceId < MaxSequenceId
    /\ \E raw \in IllTypedCalls :
      \E deviceType \in {raw.deviceType}, inputData \in {raw.inputData} :
        \E call \in {processRawInput(Manager, deviceType, inputData, now)} :
           /\ Becomes(call.im)
           /\ events' = call.events
           /\ fed' = Append(fed, [at |-> now])
           /\ last' = [op |-> "processRawInput",
                       deviceType |-> deviceType,
                       inputData |-> inputData,
                       before |-> [isInitialized |-> isInitialized,
                                   isPaused |-> isPaused,
                                   keyBuffer |-> keyBuffer,
                                   comboTracker |-> comboTracker,
                                   actionStates |-> actionStates]]
           /\ UNCHANGED <<initializing, now, registered, eventManager>>

NextRaw ==
    \/ Initialize
    \/ InitializeResumes
    \/ Raw_ProcessRawInput
    \/ Manager_RegisterCombo
    \/ SetPaused
    \/ Dispose

SpecRaw == Init /\ [][NextRaw]_vars

\* a deviceType that is not a string, or an input that is not an object
\* (null is not an object)
InvalidParameters ==
    /\ last.op = "processRawInput"
    /\ \/ ~IsString(last.deviceType)
       \/ IsString(last.inputData)
       \/ last.inputData = Null

ErrorEvents == OfType(events, "input:error")

\* C18: a processRawInput call with a non-string deviceType or a non-object
\* input returns to its caller in any manager state, emits exactly one
\* input:error event, whose context is 'processRawInput', and leaves the
\* history buffer, the combo sequences and the action states as they were.
C18_InvalidInput ==
    InvalidParameters =>
        /\ Len(ErrorEvents) = 1
        /\ ErrorEvents[1].payload.context = "processRawInput"
        /\ keyBuffer = last.before.keyBuffer
        /\ comboTracker = last.before.comboTracker
        /\ actionStates = last.before.actionStates

----------------------------------------------------------------------------
(* loadConfig and saveConfig against a persistence collaborator that may
   fail: src/unnamed/part_007, lines 244-286, checked under SpecConfig *)

MaxConfigVersion == 4

\* what the provider's loadConfig yields call after call: a configuration
\* at once, nothing, a failure every time, and a configuration after one,
\* two or three failures
LoadOutcomes ==
    {<<MoveUpConfig>>, <<Null>>, <<Throws>>, <<Throws, MoveUpConfig>>,
     <<Throws, Throws, MoveUpConfig>>, <<Throws, Throws, Throws, MoveUpConfig>>}

\* what the provider's saveConfig does: it resolves, or it rejects
SaveOutcomes == {Null, Throws}

Cfg_LoadConfig ==
    \E outcomes \in LoadOutcomes :
        \E call \in {loadConfig(Manager, outcomes)} :
           /\ ~initializing
           /\ bindingMap # Null => bindingMap.cacheVersion < MaxConfigVersion
           /\ Becomes(call.im)
           /\ events' = call.events
           /\ last' = [op |-> "loadConfig", outcomes |-> outcomes,
                       attempts |-> call.attempts,
                       before |-> [bindingMap |-> bindingMap]]
           /\ UNCHANGED <<initializing, now, fed, registered, eventManager>>

Cfg_SaveConfig ==
    \E outcome \in SaveOutcomes :
        \E call \in {saveConfig(Manager, outcome)} :
           /\ ~initializing
           /\ Becomes(call.im)
           /\ events' = call.events
           /\ last' = [op |-> "saveConfig", outcome |-> outcome,
                       attempts |-> call.attempts,
                       before |-> [bindingMap |-> bindingMap]]
           /\ UNCHANGED <<initializing, now, fed, registered, eventManager>>

Cfg_AddBinding ==
    \E binding \in BindingArgs :
        /\ bindingMap # Null
        /\ bindingMap.cacheVersion < MaxConfigVersion
        /\ bindingMap' = addBinding(bindingMap, "default", "move_up", binding, TRUE)
        /\ events' = <<>>
        /\ last' = [op |-> "addBinding"]
        /\ UNCHANGED <<keyBuffer, comboTracker, managerVars, now, fed, registered, eventManager>>

NextConfig ==
    \/ Initialize
    \/ InitializeResumes
    \/ Cfg_AddBinding
    \/ Cfg_LoadConfig
    \/ Cfg_SaveConfig
    \/ Dispose

SpecConfig == Init /\ [][NextConfig]_vars

\* the first of the provider's calls that does not fail, 0 when none does
FirstSuccess(outcomes) ==
    IF \E n \in DOMAIN outcomes : outcomes[n] # Throws
    THEN CHOOSE n \in DOMAIN outcomes :
            /\ outcomes[n] # Throws
            /\ \A m \in 1..(n - 1) : outcomes[m] = Throws
    ELSE 0

LoadErrors == OfType(events, "input:error")

NoBindings(bm) == \A i \in DOMAIN bm.bindings : bm.bindings[i].v = <<>>

\* C19: loadConfig() without an argument asks the provider three times when
\* every load fails, emits one input:error with context 'loadConfig' per
\* failed attempt, then applies the empty binding set and returns; when an
\* attempt succeeds it is the last one.
C19_LoadRetries ==
    last.op = "loadConfig" =>
        LET n == FirstSuccess(last.outcomes)
        IN /\ \A i \in DOMAIN LoadErrors :
                LoadErrors[i].payload.context = "loadConfig"
           /\ n \notin 1..3 =>
                /\ last.attempts = 3
                /\ Len(LoadErrors) = 3
                /\ OfType(events, "input:config_loaded") = <<>>
                /\ bindingMap # Null => NoBindings(bindingMap)
           /\ n \in 1..3 =>
                /\ last.attempts = n
                /\ Len(LoadErrors) = n - 1
                /\ Len(events) = IF last.outcomes[n] = Null THEN n - 1 ELSE n

\* every load failed on a manager that had a binding: three attempts, and
\* the binding is gone
C19_Witness ==
    /\ last.op = "loadConfig"
    /\ FirstSuccess(last.outcomes) = 0
    /\ last.before.bindingMap # Null
    /\ ~NoBindings(last.before.bindingMap)
    /\ last.attempts = 3

\* the second attempt succeeded and was the last
C19_SuccessWitness ==
    /\ last.op = "loadConfig"
    /\ FirstSuccess(last.outcomes) = 2
    /\ last.attempts = 2
    /\ OfType(events, "input:config_loaded") # <<>>

\* C20: when the provider's save fails, saveConfig() has asked it once,
\* emits exactly one input:error, with context 'saveConfig', and no
\* input:config_saved, returns, and leaves the bindings as they were.
C20_SaveFailure ==
    (last.op = "saveConfig" /\ last.outcome = Throws) =>
        /\ last.attempts = 1
        /\ Len(events) = 1
        /\ events[1].type = "input:error"
        /\ events[1].payload.context = "saveConfig"
        /\ OfType(events, "input:config_saved") = <<>>
        /\ bindingMap = last.before.bindingMap

\* a failed save on a manager that has a binding to save
C20_Witness ==
    /\ last.op = "saveConfig"
    /\ last.outcome = Throws
    /\ bindingMap # Null
    /\ ~NoBindings(bindingMap)
    /\ OfType(events, "input:error") # <<>>

----------------------------------------------------------------------------
(* The KeyBuffer on its own: src/unnamed/part_006.  SpecPressed drives the
   pressed-key interface (add, remove, clear), SpecHistory the input history
   (addInput, getRecentInputs, clear). *)

MaxKeyOrder == 4

MaxAdded == 4

\* new KeyBuffer(size)
BufferSizes == {-2, 0, 1, 2}

PressedKeyNames == {"KeyA", "KeyB", "KeyC"}

InitBuffer ==
    /\ \E capacity \in BufferSizes : keyBuffer = NewKeyBuffer(capacity)
    /\ bindingMap = Null
    /\ comboTracker = Null
    /\ contextStack = <<>>
    /\ currentContext = NoContext
    /\ actionStates = <<>>
    /\ frameData = NewFrameData
    /\ config = DefaultConfig
    /\ initializing = FALSE
    /\ isInitialized = FALSE
    /\ isPaused = FALSE
    /\ deviceAdapters = <<>>
    /\ now = 0
    /\ events = <<>>
    /\ last = [op |-> "new"]
    /\ fed = <<>>
    /\ registered = <<>>
    /\ eventManager = Null

KB_Add ==
    /\ Len(keyBuffer.keyOrder) < MaxKeyOrder
    /\ \E key \in PressedKeyNames :
        \E call \in {add(keyBuffer, key)} :
           /\ keyBuffer' = call.kb
           /\ last' = [op |-> "add", key |-> key, shifted |-> call.shifted,
                       before |-> keyBuffer]
    /\ UNCHANGED <<bindingMap, comboTracker, managerVars, now, events, fed,
                   registered, eventManager>>

KB_Remove ==
    /\ \E key \in PressedKeyNames :
        \E call \in {remove(keyBuffer, key)} :
           /\ keyBuffer' = call.kb
           /\ last' = [op |-> "remove", key |-> key, result |-> call.result,
                       before |-> keyBuffer]
    /\ UNCHANGED <<bindingMap, comboTracker, managerVars, now, events, fed,
                   registered, eventManager>>

KB_Clear ==
    /\ keyBuffer' = KeyBuffer_clear(keyBuffer)
    /\ last' = [op |-> "clear", before |-> keyBuffer]
    /\ UNCHANGED <<bindingMap, comboTracker, managerVars, now, events, fed,
                   registered, eventManager>>

NextPressed ==
    \/ KB_Add
    \/ KB_Remove
    \/ KB_Clear

SpecPressed == InitBuffer /\ [][NextPressed]_vars

\* the capacity N of a buffer that has one
Capacity == keyBuffer.bufferSize

\* the keys pressed before the last call, earliest insertion first
PressedBefore == last.before.pressedKeys

\* the last call was an add() that took the pressed keys over the capacity
Overflowed ==
    /\ last.op = "add"
    /\ Len(PressedBefore) = Capacity
    /\ last.key \notin Range(PressedBefore)

\* C21: for a KeyBuffer of capacity N > 0, after any sequence of add() and
\* remove() calls size() <= N and no key is held twice, and an add() that
\* overflows the capacity evicts the pressed key that was inserted earliest.
C21_PressedCapacity ==
    Capacity > 0 =>
        /\ size(keyBuffer) <= Capacity
        /\ Cardinality(Range(keyBuffer.pressedKeys)) = Len(keyBuffer.pressedKeys)
        /\ Overflowed =>
              Range(keyBuffer.pressedKeys) =
                  (Range(PressedBefore) \ {PressedBefore[1]}) \cup {last.key}

\* the inputs given to addInput
HistoryInputs == {KeyW("press", 100), KeyW("release", 0)}

\* the arguments of getRecentInputs: count (0 for the default, this.count)
\* and eventType ("" for none)
RecentQueries ==
    {[count |-> 0, eventType |-> ""], [count |-> 1, eventType |-> ""],
     [count |-> 0, eventType |-> "press"]}

\* fed holds the inputs given to addInput since the buffer was constructed,
\* each with the time of its call and the bufferIndex its entry was given
KB_AddInput ==
    /\ Len(fed) < MaxAdded
    /\ \E inputData \in HistoryInputs :
        \E added \in {addInput(keyBuffer, inputData, now + 1)} :
           /\ keyBuffer' = added
           /\ fed' = Append(fed,
                  [input |-> inputData, at |-> now + 1,
                   bufferIndex |-> added.buffer[keyBuffer.writeIndex].bufferIndex])
        /\ last' = [op |-> "addInput", before |-> keyBuffer]
    /\ now' = now + 1
    /\ UNCHANGED <<bindingMap, comboTracker, managerVars, events, registered, eventManager>>

KB_GetRecentInputs ==
    /\ \E query \in RecentQueries :
          last' = [op |-> "getRecentInputs", query |-> query,
                   result |-> getRecentInputs(
                                  keyBuffer,
                                  IF query.count = 0 THEN keyBuffer.count
                                  ELSE query.count,
                                  query.eventType)]
    /\ UNCHANGED <<bindingMap, keyBuffer, comboTracker, managerVars, now, events,
                   fed, registered, eventManager>>

NextHistory ==
    \/ KB_AddInput
    \/ KB_GetRecentInputs
    \/ KB_Clear

SpecHistory == InitBuffer /\ [][NextHistory]_vars

\* getRecentInputs(), as called without arguments
RecentInputs == getRecentInputs(keyBuffer, keyBuffer.count, "")

\* the entry the n-th addInput call is to have left, less its bufferIndex
EntryOf(n) == [bufferTimestamp |-> fed[n].at] @@ fed[n].input

WithoutIndex(entry) == [f \in DOMAIN entry \ {"bufferIndex"} |-> entry[f]]

\* the last n inputs added, newest first
NewestFirst(n) == [i \in 1..n |-> EntryOf(Len(fed) + 1 - i)]

Stripped(entries) == [i \in DOMAIN entries |-> WithoutIndex(entries[i])]

\* C22: for a KeyBuffer of capacity N > 0, after k addInput calls
\* getRecentInputs() returns exactly the last min(k, N) inputs added, newest
\* first, so that it is always the oldest entry that an overflow evicted.
C22_HistoryFifo ==
    Capacity > 0 =>
        Stripped(RecentInputs) = NewestFirst(Min(Len(fed), Capacity))

\* more inputs were added than the buffer holds, and the two kept differ
C22_Witness ==
    /\ Capacity = 2
    /\ Len(fed) = 4
    /\ Len(RecentInputs) = 2
    /\ fed[3].input # fed[4].input

\* C23: a KeyBuffer constructed with a negative size retains every input
\* given to addInput (getRecentInputs() returns all of them, newest first),
\* and one constructed with size 0 retains none.
C23_SizeSemantics ==
    /\ Capacity < 0 => Stripped(RecentInputs) = NewestFirst(Len(fed))
    /\ Capacity = 0 => RecentInputs = <<>>

\* the n-th entry created by addInput has the bufferIndex of the slot it is
\* written to, which is n - 1 counted round the ring of N slots
SlotOf(n) == (n - 1) % Capacity

\* C24: every history entry created by addInput carries a bufferIndex
\* strictly greater than that of every entry created before it, for any
\* number of addInput calls.
C24_IndexIncreases ==
    \A m, n \in DOMAIN fed : m < n => fed[m].bufferIndex < fed[n].bufferIndex

\* C24, amended: in a KeyBuffer of capacity N > 0 the n-th entry created by
\* addInput carries the bufferIndex (n - 1) mod N, the slot it is written to;
\* the indices increase strictly over the first N entries only.
C24_IndexIsSlot ==
    Capacity > 0 =>
        /\ \A n \in DOMAIN fed : fed[n].bufferIndex = SlotOf(n)
        /\ \A n \in 1..keyBuffer.count :
              RecentInputs[n].bufferIndex = SlotOf(Len(fed) + 1 - n)
        /\ \A m, n \in DOMAIN fed :
              m < n /\ n <= Capacity => fed[m].bufferIndex < fed[n].bufferIndex

\* the ring has wrapped: a later entry carries a smaller bufferIndex
C24_Witness ==
    /\ Capacity = 2
    /\ Len(fed) = 3
    /\ fed[3].bufferIndex = 0
    /\ fed[2].bufferIndex = 1
    /\ RecentInputs[1].bufferIndex = 0

\* C25: clear() purges the input history: after it getRecentInputs() returns
\* no entries and the stored count is 0, until the next addInput.
C25_ClearPurges ==
    last.op = "clear" => RecentInputs = <<>> /\ keyBuffer.count = 0

----------------------------------------------------------------------------
(* Analog inputs through a BindingMap: src/src/input/BindingMap.js, lines
   133-173 and 406-427, checked under SpecAnalog *)

MaxAnalogVersion == 3

\* the left stick bound with deadzone 0.1, at the default sensitivity and at
\* sensitivity 2.0
StickBinding(sensitivity) ==
    [deviceType |-> "gamepad", inputType |-> "stick", key |-> "left_stick_x",
     deadzone |-> 10, sensitivity |-> sensitivity]

\* and with an explicit sensitivity 0, an explicit deadzone 0, and neither
\* field
StickBindings ==
    {StickBinding(100), StickBinding(200), StickBinding(0),
     [StickBinding(100) EXCEPT !.deadzone = 0],
     [deviceType |-> "gamepad", inputType |-> "stick", key |-> "left_stick_x"]}

\* the stick at 0.05, at -0.05 and at 0.5
StickInput(value) ==
    [deviceType |-> "gamepad", inputType |-> "stick", key |-> "left_stick_x",
     type |-> "analog", value |-> value]

StickInputs == {StickInput(5), StickInput(-5), StickInput(50)}

Analog_AddBinding ==
    /\ bindingMap.cacheVersion < MaxAnalogVersion
    /\ \E binding \in StickBindings :
        /\ bindingMap' = addBinding(bindingMap, "default", "move_horizontal",
                                    binding, TRUE)
        /\ last' = [op |-> "addBinding", binding |-> binding]
    /\ UNCHANGED <<keyBuffer, comboTracker, managerVars, now, events, fed, registered, eventManager>>

Analog_RemoveBinding ==
    /\ bindingMap.cacheVersion < MaxAnalogVersion
    /\ bindingMap' = removeBinding(bindingMap, "default", "move_horizontal", Null)
    /\ last' = [op |-> "removeBinding"]
    /\ UNCHANGED <<keyBuffer, comboTracker, managerVars, now, events, fed, registered, eventManager>>

\* cached: the lookup was answered from the cache
Analog_MapInputToActions ==
    /\ \E inputData \in StickInputs :
        \E call \in {mapInputToActions(bindingMap, inputData, NoContext)} :
           /\ bindingMap' = call.bm
           /\ last' = [op |-> "mapInputToActions",
                       inputData |-> inputData,
                       actions |-> call.actions,
                       cached |-> call.bm = bindingMap]
    /\ UNCHANGED <<keyBuffer, comboTracker, managerVars, now, events, fed, registered, eventManager>>

NextAnalog ==
    \/ Analog_AddBinding
    \/ Analog_RemoveBinding
    \/ Analog_MapInputToActions

SpecAnalog == InitBM /\ [][NextAnalog]_vars

\* the entries of the active context that the input matches
MatchingEntries(inputData) ==
    LET contextMap == ContextMapOf(bindingMap, bindingMap.activeContext)
    IN {entry \in UNION {Range(contextMap[i].v) : i \in DOMAIN contextMap} :
            matchesBinding(inputData, entry)}

\* the magnitude of the input is below the deadzone of every binding it
\* matches
BelowDeadzone(inputData) ==
    \A entry \in MatchingEntries(inputData) :
        Abs(inputData.value) < entry.deadzone

\* C26: for every binding and every analog input whose magnitude is below
\* the binding's deadzone, the action mapInputToActions returns has value
\* exactly 0, in every reachable state of the BindingMap.
C26_Deadzone ==
    (last.op = "mapInputToActions" /\ BelowDeadzone(last.inputData)) =>
        \A i \in DOMAIN last.actions : last.actions[i].value = 0

----------------------------------------------------------------------------
(* Further claims about the BindingMap, checked under SpecBM *)

\* the entries under a binding key of a context, <<>> when it has none
EntriesUnder(bm, context, bindingKey) ==
    LET contextMap == ContextMapOf(bm, context)
    IN IF MapHas(contextMap, bindingKey) THEN MapGet(contextMap, bindingKey)
       ELSE <<>>

KeysOf(bm, context) == Range(MapKeys(ContextMapOf(bm, context)))

OtherThan(entries, actionName) ==
    SelectSeq(entries, LAMBDA e : e.actionName # actionName)

\* what removeBinding(context, actionName, binding) is to have done between
\* the map before and the map after
RemovedOne(before, after, context, actionName, binding) ==
    LET bindingKey == generateBindingKey(normalizeBinding(binding))
    IN /\ OtherThan(EntriesUnder(after, context, bindingKey), actionName)
            = EntriesUnder(after, context, bindingKey)
       /\ OtherThan(EntriesUnder(after, context, bindingKey), actionName)
            = OtherThan(EntriesUnder(before, context, bindingKey), actionName)
       /\ \A other \in (KeysOf(before, context) \cup KeysOf(after, context))
                         \ {bindingKey} :
            EntriesUnder(after, context, other) = EntriesUnder(before, context, other)

\* what removeBinding(context, actionName) is to have done
RemovedAll(before, after, context, actionName) ==
    \A bindingKey \in KeysOf(before, context) \cup KeysOf(after, context) :
        EntriesUnder(after, context, bindingKey)
            = OtherThan(EntriesUnder(before, context, bindingKey), actionName)

NoEmptyList(bm, context) ==
    \A e \in Range(ContextMapOf(bm, context)) : e.v # <<>>

\* C27: removeBinding(context, action, binding) leaves no entry for the
\* action under the binding's key and changes no other action's entries and
\* no other key; removeBinding(context, action) leaves no entry for the
\* action under any key of the context; after either no binding key of the
\* context maps to an empty list.
C27_RemoveBinding ==
    [][last'.op = "removeBinding" =>
          /\ last'.binding # Null =>
                RemovedOne(bindingMap, bindingMap', last'.context,
                           last'.actionName, last'.binding)
          /\ last'.binding = Null =>
                RemovedAll(bindingMap, bindingMap', last'.context,
                           last'.actionName)
          /\ NoEmptyList(bindingMap', last'.context)]_vars

\* the positions <<inputKey, i>> of the entries of a context that match an
\* input: entry i of the list under one of the input's binding keys
MatchingPositions(bm, context, inputData) ==
    UNION {{<<inputKey, i>> :
                i \in {j \in DOMAIN EntriesUnder(bm, context, inputKey) :
                          matchesBinding(inputData,
                                         EntriesUnder(bm, context, inputKey)[j])}} :
            inputKey \in Range(generateInputKeys(inputData))}

Several(set) == \E a, b \in set : a # b

\* C28 (no winner-take-all): when several binding entries of the context
\* match the looked-up input, mapInputToActions returns one action for each
\* of them, not only the first: as many actions as matching entries, and
\* under each action name as many as there are matching entries of that name.
C28_EveryMatch ==
    (Looked /\ Several(MatchingPositions(bindingMap, last.context, last.inputData))) =>
        LET matching == MatchingPositions(bindingMap, last.context, last.inputData)
            Named(name) ==
                {p \in matching :
                    EntriesUnder(bindingMap, last.context, p[1])[p[2]].actionName = name}
            Returned(name) ==
                {i \in DOMAIN last.actions : last.actions[i].name = name}
        IN /\ Len(last.actions) = Cardinality(matching)
           /\ \A name \in ActionNames :
                Cardinality(Returned(name)) = Cardinality(Named(name))

UnknownContext(bm, context) == ~MapHas(bm.bindings, context)

\* no entry of the context is bound to the input's key, with or without
\* modifiers: the case of a key that has never been bound, among others
UnboundKey(bm, context, inputData) ==
    \A entry \in EntriesOf(bm, context) : ~SameKey(inputData, entry)

\* C29: mapInputToActions for an unknown context, or for a key that no entry
\* of the context is bound to (a key never bound among them), returns an
\* empty list, whatever was looked up or bound before, and leaves the
\* bindings as they were.
C29_UnknownLookup ==
    [][(/\ last'.op = "mapInputToActions"
        /\ \/ UnknownContext(bindingMap, last'.context)
           \/ UnboundKey(bindingMap, last'.context, last'.inputData))
          => /\ last'.actions = <<>>
             /\ bindingMap'.bindings = bindingMap.bindings
             /\ bindingMap'.activeContext = bindingMap.activeContext]_vars

\* a lookup of the bound key w under a context the map does not know, after
\* the same key has been looked up under a context that binds it
C29_Witness ==
    /\ Looked /\ last.inputData.key = "w"
    /\ UnknownContext(bindingMap, last.context)
    /\ \E cacheKey \in DOMAIN bindingMap.bindingCache :
            bindingMap.bindingCache[cacheKey] # <<>>

\* a lookup of the key x, which no binding names, under a context that
\* binds another key
C29_UnboundWitness ==
    /\ Looked /\ last.inputData.key = "x"
    /\ EntriesOf(bindingMap, last.context) # {}

----------------------------------------------------------------------------
(* The rolling buffer of the key-sequence ComboTracker, checked under
   SpecKeys *)

\* maxSequenceLength is a number, not Infinity
Limited(tracker) == tracker.maxSequenceLength # 0

FedKeys == [i \in DOMAIN fed |-> fed[i].key]

\* the combos named by the events and the callbacks of the last processInput
EmittedIds ==
    {ComboEvents[i].payload.data.name : i \in DOMAIN ComboEvents}
        \cup Range(last.callbacks)

SequenceOf(tracker, comboId) == MapGet(tracker.combos, comboId).sequence

\* C30 (rolling buffer): after every processInput of a tracker with a
\* maxSequenceLength the buffer holds at most maxSequenceLength keys, they
\* are the most recent keys given, in arrival order (one more than before,
\* or maxSequenceLength of them), and no combo whose sequence is longer than
\* maxSequenceLength is emitted.
C30_RollingBuffer ==
    /\ []((Processed /\ Limited(comboTracker)) =>
            /\ Len(comboTracker.buffer) <= comboTracker.maxSequenceLength
            /\ Len(comboTracker.buffer) <= Len(FedKeys)
            /\ comboTracker.buffer = LastKeys(FedKeys, Len(comboTracker.buffer))
            /\ \A comboId \in EmittedIds :
                  Len(SequenceOf(comboTracker, comboId))
                      <= comboTracker.maxSequenceLength)
    /\ [][(Processed' /\ Limited(comboTracker)) =>
            Len(comboTracker'.buffer) =
                Min(Len(comboTracker.buffer) + 1, comboTracker.maxSequenceLength)]_vars

\* a third key given to a tracker of maxSequenceLength 2 that holds a
\* combo: the buffer has dropped the first key
C30_Witness ==
    /\ Processed /\ comboTracker.maxSequenceLength = 2
    /\ Len(fed) = 3 /\ Len(comboTracker.buffer) = 2
    /\ comboTracker.combos # <<>>

\* the keys a, b given to a tracker of maxSequenceLength 1 that holds the
\* combo a, b: nothing is emitted
C30_LongComboWitness ==
    /\ Processed /\ comboTracker.maxSequenceLength = 1
    /\ Len(fed) >= 2
    /\ FedKeys[Len(fed) - 1] = "a" /\ FedKeys[Len(fed)] = "b"
    /\ \E e \in Range(comboTracker.combos) : e.v.sequence = <<"a", "b">>
    /\ EmittedIds = {}

----------------------------------------------------------------------------
(* EventManager: src/unnamed/part_003 *)

\* A callback is named by what it does with the event and, for the wrapper
\* that once() builds, by the number of the wrapper: two registrations of
\* the same function are equal, two wrappers never are.
Callback(does) == [does |-> does, wrapper |-> 0]

WrappedCallback(does, n) == [does |-> does, wrapper |-> n]

\* issued counts the ids handed out, which stands for the time and the
\* random part of generateListenerId
NewEventManager ==
    [listeners |-> <<>>, eventQueue |-> <<>>, isProcessing |-> FALSE,
     issued |-> 0]

ListenersOf(em, eventType) ==
    IF MapHas(em.listeners, eventType) THEN MapGet(em.listeners, eventType)
    ELSE <<>>

\* listeners.sort((a, b) => b.priority - a.priority) after a push onto a
\* sorted array: the sort is stable, so the new listener settles behind
\* every listener of its priority or a higher one
SortedPush(listeners, listener) ==
    LET ahead == SelectSeq(listeners, LAMBDA l : l.priority >= listener.priority)
        behind == SelectSeq(listeners, LAMBDA l : l.priority < listener.priority)
    IN ahead \o <<listener>> \o behind

EventManager_on(em, eventType, callback, priority) ==
    LET listener == [callback |-> callback, context |-> Null,
                     priority |-> priority, id |-> em.issued + 1]
    IN [em |-> [em EXCEPT
                  !.listeners = MapSet(em.listeners, eventType,
                                       SortedPush(ListenersOf(em, eventType),
                                                  listener)),
                  !.issued = em.issued + 1],
        id |-> listener.id]

\* once wraps the callback and subscribes the wrapper with priority 0
EventManager_once(em, eventType, does) ==
    EventManager_on(em, eventType, WrappedCallback(does, em.issued + 1), 0)

IsListenerId(callbackOrId) == Has(callbackOrId, "id")

FindListener(listeners, callbackOrId) ==
    LET Found(l) == IF IsListenerId(callbackOrId) THEN l.id = callbackOrId.id
                    ELSE l.callback = callbackOrId
    IN IF \E i \in DOMAIN listeners : Found(listeners[i])
       THEN CHOOSE i \in DOMAIN listeners :
                /\ Found(listeners[i])
                /\ \A j \in 1..(i - 1) : ~Found(listeners[j])
       ELSE 0

EventManager_off(em, eventType, callbackOrId) ==
    IF ~MapHas(em.listeners, eventType) THEN [em |-> em, result |-> FALSE]
    ELSE LET listeners == MapGet(em.listeners, eventType)
             index == FindListener(listeners, callbackOrId)
             left == IF index # 0 THEN Splice(listeners, index) ELSE listeners
         IN [em |-> [em EXCEPT !.listeners =
                        IF left = <<>> THEN MapDelete(em.listeners, eventType)
                        ELSE MapSet(em.listeners, eventType, left)],
             result |-> Len(left) < Len(listeners)]

\* What calling a listener does to the manager: the wrapper of once() calls
\* the callback and then off(); a callback that throws leaves the wrapper
\* before its off().
CallListener(em, eventType, listener) ==
    IF listener.callback.wrapper # 0 /\ listener.callback.does # "throws"
    THEN EventManager_off(em, eventType, listener.callback).em
    ELSE em

\* for (const listener of listeners): the array iterator reads position i
\* of the array as it is when the position is reached
RECURSIVE DeliverTo(_, _, _, _, _)
DeliverTo(em, eventType, i, cancelled, invoked) ==
    LET listeners == ListenersOf(em, eventType)
    IN IF i > Len(listeners) \/ cancelled
       THEN [em |-> em, invoked |-> invoked]
       ELSE DeliverTo(CallListener(em, eventType, listeners[i]), eventType, i + 1,
                    listeners[i].callback.does = "cancels",
                    Append(invoked, listeners[i].id))

EventManager_emit(em, eventType) ==
    IF ~MapHas(em.listeners, eventType) THEN [em |-> em, invoked |-> <<>>]
    ELSE DeliverTo(em, eventType, 1, FALSE, <<>>)

----------------------------------------------------------------------------
(* The EventManager on its own: listeners are subscribed with on() and
   once(), removed with off(), and events are emitted *)

MaxListeners == 3

EventTypes == {"input:combo", "input:error"}

CallbackKinds == {"returns", "cancels", "throws"}

Priorities == {0, 1}

InitEvents ==
    /\ eventManager = NewEventManager
    /\ bindingMap = Null
    /\ keyBuffer = Null
    /\ comboTracker = Null
    /\ contextStack = <<>>
    /\ currentContext = NoContext
    /\ actionStates = <<>>
    /\ frameData = NewFrameData
    /\ config = DefaultConfig
    /\ initializing = FALSE
    /\ isInitialized = FALSE
    /\ isPaused = FALSE
    /\ deviceAdapters = <<>>
    /\ now = 0
    /\ events = <<>>
    /\ last = [op |-> "new"]
    /\ fed = <<>>
    /\ registered = <<>>

Events_On ==
    \E eventType \in EventTypes, does \in CallbackKinds, priority \in Priorities :
        /\ eventManager.issued < MaxListeners
        /\ eventManager' = EventManager_on(eventManager, eventType,
                                           Callback(does), priority).em
        /\ last' = [op |-> "on"]
        /\ UNCHANGED <<bindingMap, keyBuffer, comboTracker, managerVars, now,
                       events, fed, registered>>

Events_Once ==
    \E eventType \in EventTypes, does \in CallbackKinds :
        /\ eventManager.issued < MaxListeners
        /\ eventManager' = EventManager_once(eventManager, eventType, does).em
        /\ last' = [op |-> "once"]
        /\ UNCHANGED <<bindingMap, keyBuffer, comboTracker, managerVars, now,
                       events, fed, registered>>

Events_Off ==
    \E eventType \in EventTypes,
       callbackOrId \in {[id |-> n] : n \in 1..MaxListeners}
                            \cup {Callback(does) : does \in CallbackKinds} :
        /\ EventManager_off(eventManager, eventType, callbackOrId).result
        /\ eventManager' = EventManager_off(eventManager, eventType, callbackOrId).em
        /\ last' = [op |-> "off"]
        /\ UNCHANGED <<bindingMap, keyBuffer, comboTracker, managerVars, now,
                       events, fed, registered>>

\* last keeps the listeners of the type as they stood when emit was called
\* and the ids of the listeners that were called, in call order
Events_Emit ==
    \E eventType \in EventTypes :
        \E call \in {EventManager_emit(eventManager, eventType)} :
            /\ eventManager' = call.em
            /\ last' = [op |-> "emit", eventType |-> eventType,
                        listeners |-> ListenersOf(eventManager, eventType),
                        invoked |-> call.invoked]
            /\ UNCHANGED <<bindingMap, keyBuffer, comboTracker, managerVars, now,
                           events, fed, registered>>

NextEvents ==
    \/ Events_On
    \/ Events_Once
    \/ Events_Off
    \/ Events_Emit

SpecEvents == InitEvents /\ [][NextEvents]_vars

Emitted == last.op = "emit"

\* the listeners up to the first whose callback cancels the event, that one
\* included
RECURSIVE UntilCancelled(_)
UntilCancelled(listeners) ==
    IF listeners = <<>> THEN <<>>
    ELSE IF Head(listeners).callback.does = "cancels" THEN <<Head(listeners)>>
    ELSE <<Head(listeners)>> \o UntilCancelled(Tail(listeners))

IdsOf(listeners) == [i \in DOMAIN listeners |-> listeners[i].id]

Descending(listeners) ==
    \A i, j \in DOMAIN listeners :
        i < j => listeners[i].priority >= listeners[j].priority

\* C31: emit(type) calls every listener registered for the type at the time
\* of the call exactly once, in descending priority order, leaving out only
\* the listeners behind one that cancelled the event, also when listeners
\* subscribed with once() remove themselves during the delivery.
C31_EmitDelivers ==
    Emitted =>
        /\ Descending(last.listeners)
        /\ last.invoked = IdsOf(UntilCancelled(last.listeners))

----------------------------------------------------------------------------
(* Cache transparency of the BindingMap, checked under SpecBM *)

NamesAndValues(actions) ==
    [i \in DOMAIN actions |-> [name |-> actions[i].name, value |-> actions[i].value]]

\* C32 (cache transparency): whatever mutations and lookups came before,
\* mapInputToActions returns the action names and values that resolving the
\* input against the bindings as they stand gives, also for an input that
\* shares device type, input type, key and event type with an earlier one
\* and differs from it in its modifiers or its value.
C32_CacheTransparency ==
    Looked =>
        NamesAndValues(last.actions) =
            NamesAndValues(ResolveActions(ContextMapOf(bindingMap, last.context),
                                          last.inputData))

----------------------------------------------------------------------------
(* The instances the step-based ComboTracker holds between calls, checked
   under SpecSteps *)

\* C33: whenever checkForCombo may start, every instance in activeSequences
\* has currentStep < steps.length and is not marked completed, and no
\* checkForCombo on a well-formed input has thrown, the call that follows a
\* simultaneous completion of two combos included.
C33_NoLeftoverInstance ==
    /\ \A e \in Range(comboTracker.activeSequences) :
          /\ e.v.currentStep < Len(e.v.steps)
          /\ ~e.v.completed
    /\ Checked => ~last.threw

----------------------------------------------------------------------------
(* The action states on their own: action inputs are processed and
   updateActionStates() runs as the tick; fed keeps, for each action, the
   type of the last input:action_pressed or input:action_released event
   emitted for it *)

TransitionInputs ==
    ActionInputs \cup
    {[name |-> "move_up", type |-> "analog", value |-> 5, timestamp |-> 0],
     [name |-> "close", type |-> "press", value |-> 100, timestamp |-> 0],
     [name |-> "close", type |-> "release", value |-> 0, timestamp |-> 0]}

TransitionEvents(emitted) ==
    SelectSeq(emitted, LAMBDA e :
        e.type \in {"input:action_pressed", "input:action_released"})

RECURSIVE Recorded(_, _)
Recorded(history, emitted) ==
    IF emitted = <<>> THEN history
    ELSE Recorded(MapSet(history, Head(emitted).payload.action, Head(emitted).type),
                  Tail(emitted))

Actions_ProcessActionInput ==
    \E action \in TransitionInputs :
        \E call \in {processActionInput(Manager, action)} :
           /\ Becomes(call.im)
           /\ events' = call.events
           /\ last' = [op |-> "processActionInput"]
           /\ UNCHANGED <<initializing, now, fed, registered, eventManager>>

Actions_UpdateActionStates ==
    \E call \in {updateActionStates(Manager)} :
       /\ Becomes(call.im)
       /\ events' = call.events
       /\ fed' = Recorded(fed, TransitionEvents(call.events))
       /\ last' = [op |-> "updateActionStates"]
       /\ UNCHANGED <<initializing, now, registered, eventManager>>

NextActions ==
    \/ Actions_ProcessActionInput
    \/ Actions_UpdateActionStates

SpecActions == Init /\ [][NextActions]_vars

\* the last transition event emitted for an action, none before the first:
\* an action starts not pressed
LastReported(history, actionName) ==
    IF MapHas(history, actionName) THEN MapGet(history, actionName)
    ELSE "input:action_released"

\* the transition events of a tick alternate with one another and with the
\* last one emitted before, for every action
RECURSIVE Alternates(_, _)
Alternates(history, emitted) ==
    \/ emitted = <<>>
    \/ /\ Head(emitted).type # LastReported(history, Head(emitted).payload.action)
       /\ Alternates(Recorded(history, <<Head(emitted)>>), Tail(emitted))

\* C34: the input:action_pressed and input:action_released events of an
\* action alternate strictly, starting with action_pressed, and after each
\* updateActionStates() an action is pressed exactly when the last such
\* event emitted for it was action_pressed, also when two action inputs
\* are processed between two ticks.
C34_TransitionsReported ==
    /\ [][last'.op = "updateActionStates" =>
            Alternates(fed, TransitionEvents(events'))]_vars
    /\ [](last.op = "updateActionStates" =>
            \A e \in Range(actionStates) :
                e.v.isPressed <=>
                    LastReported(fed, e.k) = "input:action_pressed")

----------------------------------------------------------------------------
(* Presses and releases through processRawInput, checked under Spec, where
   the key w is the only source of action inputs *)

ReleaseDelivered ==
    /\ last.op = "processRawInput"
    /\ last.typed
    /\ last.inputData = KeyW("release", 0)

PressedIn(states) == {e.k : e \in {x \in Range(states) : x.v.isPressed}}

----------------------------------------------------------------------------
(* The life cycle of the InputManager: initialize() may be called again
   after dispose() and while an earlier call waits for loadConfig.
   initializing counts the calls that wait; fed counts the calls started
   and completed since no call was waiting. *)

MaxPending == 2

MaxStarted == 3

MaxLifecycleVersion == 3

InitLifecycle ==
    /\ bindingMap = Null
    /\ keyBuffer = Null
    /\ comboTracker = Null
    /\ contextStack = <<>>
    /\ currentContext = NoContext
    /\ actionStates = <<>>
    /\ frameData = NewFrameData
    /\ config = DefaultConfig
    /\ initializing = 0
    /\ isInitialized = FALSE
    /\ isPaused = FALSE
    /\ deviceAdapters = <<>>
    /\ now = 0
    /\ events = <<>>
    /\ last = [op |-> "new"]
    /\ fed = [started |-> 0, completed |-> 0]
    /\ registered = <<>>
    /\ eventManager = Null

\* the synchronous part of initialize(), up to its await
Life_Initialize ==
    /\ initializing < MaxPending
    /\ initializing > 0 => fed.started < MaxStarted
    /\ \E options \in InitializeOptions, trackerClass \in TrackerClasses :
        /\ comboTracker # Null => trackerClass = comboTracker.class
        /\ \E call \in {initialize(Manager, options, trackerClass)} :
           /\ Becomes(call.im)
           /\ initializing' = IF call.threw THEN initializing ELSE initializing + 1
           /\ fed' = IF call.threw THEN fed
                     ELSE IF initializing = 0 THEN [started |-> 1, completed |-> 0]
                     ELSE [fed EXCEPT !.started = @ + 1]
           /\ events' = <<>>
           /\ last' = [op |-> "initialize", threw |-> call.threw,
                       before |-> [bindingMap |-> bindingMap,
                                   keyBuffer |-> keyBuffer,
                                   comboTracker |-> comboTracker]]
           /\ UNCHANGED <<now, registered, eventManager>>

\* the rest of a waiting call, once its loadConfig has resolved
Life_InitializeResumes ==
    /\ initializing > 0
    /\ \E outcomes \in ProviderOutcomes :
        \E call \in {initializeFinish(Manager, outcomes)} :
           /\ Becomes(call.im)
           /\ initializing' = initializing - 1
           /\ fed' = [fed EXCEPT !.completed = @ + 1]
           /\ events' = call.events
           /\ last' = [op |-> "initialized"]
           /\ UNCHANGED <<now, registered, eventManager>>

Life_PushContext ==
    /\ isInitialized
    /\ Len(contextStack) < MaxStackDepth
    /\ bindingMap.cacheVersion < MaxLifecycleVersion
    /\ \E contextName \in Contexts :
        \E call \in {pushContext(Manager, contextName)} :
           /\ Becomes(call.im)
           /\ events' = call.events
           /\ last' = [op |-> "pushContext"]
           /\ UNCHANGED <<initializing, now, fed, registered, eventManager>>

Life_Dispose ==
    /\ isInitialized
    /\ \E call \in {dispose(Manager)} :
       /\ Becomes(call.im)
       /\ events' = call.events
       /\ last' = [op |-> "dispose"]
       /\ UNCHANGED <<initializing, now, fed, registered, eventManager>>

NextLifecycle ==
    \/ Life_Initialize
    \/ Life_InitializeResumes
    \/ Life_PushContext
    \/ Life_Dispose

SpecLifecycle == InitLifecycle /\ [][NextLifecycle]_vars

InitializeCompleted == last.op = "initialized" /\ isInitialized

\* C36: whenever initialize() completes successfully, after a dispose() as
\* well, currentContext is 'default', the context stack is empty and the
\* binding table's active context is 'default'.
C36_ReadyState ==
    InitializeCompleted =>
        /\ currentContext = "default"
        /\ contextStack = <<>>
        /\ bindingMap.activeContext = "default"

Overlapped == fed.started >= 2

\* C37: of initialize() calls that overlap (one called while another waits
\* for loadConfig) at most one completes successfully: the components are
\* constructed once, the default context is pushed once and
\* input:initialized is emitted once.
C37_OverlappingInitialize ==
    /\ [](Overlapped => fed.completed <= 1)
    /\ [][(last'.op = "initialize" /\ initializing > 0) =>
            /\ bindingMap' = bindingMap
            /\ keyBuffer' = keyBuffer
            /\ comboTracker' = comboTracker]_vars
    /\ [][(last'.op = "initialized" /\ fed.completed >= 1) =>
            /\ contextStack' = contextStack
            /\ OfType(events', "input:initialized") = <<>>]_vars

----------------------------------------------------------------------------
(* The step-based ComboTracker with a single combo of non-optional steps,
   fed inputs that all arrive within the timeout of one another *)

MaxSuffixInputs == 4

SuffixSequences ==
    {<<KeyStep("a"), KeyStep("b")>>,
     <<KeyStep("a"), KeyStep("a"), KeyStep("b")>>}

InitSuffix ==
    /\ \E steps \in SuffixSequences :
          comboTracker = registerCombo(NewStepTracker(StepTrackerDefaultTimeout),
                                       "S", [steps |-> steps])
    /\ bindingMap = Null
    /\ keyBuffer = Null
    /\ contextStack = <<>>
    /\ currentContext = NoContext
    /\ actionStates = <<>>
    /\ frameData = NewFrameData
    /\ config = DefaultConfig
    /\ initializing = FALSE
    /\ isInitialized = FALSE
    /\ isPaused = FALSE
    /\ deviceAdapters = <<>>
    /\ now = 0
    /\ events = <<>>
    /\ last = [op |-> "new"]
    /\ fed = <<>>
    /\ registered = <<>>
    /\ eventManager = Null

Suffix_CheckForCombo ==
    /\ Len(fed) < MaxSuffixInputs
    /\ \E inputData \in StepInputs :
        \E call \in {checkForCombo(comboTracker, inputData, now)} :
           /\ comboTracker' = call.tracker
           /\ fed' = Append(fed, [input |-> inputData, at |-> now])
           /\ last' = [op |-> "checkForCombo", inputData |-> inputData,
                       result |-> call.result, threw |-> call.threw]
           /\ UNCHANGED <<bindingMap, keyBuffer, managerVars, now, events,
                          registered, eventManager>>

Suffix_Tick ==
    /\ now < MaxTime
    /\ now' = now + 1
    /\ last' = [op |-> "tick"]
    /\ UNCHANGED <<bindingMap, keyBuffer, comboTracker, managerVars, events, fed,
                   registered, eventManager>>

NextSuffix ==
    \/ Suffix_CheckForCombo
    \/ Suffix_Tick

SpecSuffix == InitSuffix /\ [][NextSuffix]_vars

TheSteps == MapGet(comboTracker.combos, "S").steps

\* the most recent inputs match the steps of the combo, step for step
SuffixMatchesSteps ==
    /\ Len(fed) >= Len(TheSteps)
    /\ \A j \in DOMAIN TheSteps :
          matchesComboStep(fed[Len(fed) - Len(TheSteps) + j].input, TheSteps[j])

\* C38 (suffix completeness): with one registered combo of non-optional
\* steps S and every input within the timeout of the one before, whenever
\* the most recent |S| inputs match S step for step, checkForCombo reports
\* the combo on the last of them, whatever came before, also when S begins
\* with a repeated key and the input before was that key.
C38_SuffixCompleteness ==
    (Checked /\ SuffixMatchesSteps) =>
        /\ ~last.threw
        /\ last.result # Null
        /\ last.result.comboId = "S"

----------------------------------------------------------------------------
(* Export and import of the bindings: getBindings() handed to
   loadBindings() *)

MaxRoundTripVersion == 4

\* a binding string that names modifiers only
BindCtrl == BindingString(<< <<"ctrl">> >>)

\* a binding object with a sensitivity and a deadzone of its own
BindStick == [key |-> "w", sensitivity |-> 50, deadzone |-> 20]

RoundTripBindings == BindingArgs \cup {BindCtrl, BindStick}

RoundTripInputs ==
    LookupInputs \cup
    {Modified([KeyW("press", 100) EXCEPT !.key = ""], TRUE, FALSE),
     KeyW("press", 30)}

RT_AddBinding ==
    \E context \in Contexts, actionName \in ActionNames, binding \in RoundTripBindings :
        /\ bindingMap.cacheVersion < MaxRoundTripVersion
        /\ bindingMap' = addBinding(bindingMap, context, actionName, binding, TRUE)
        /\ last' = [op |-> "addBinding"]
        /\ UNCHANGED <<keyBuffer, comboTracker, managerVars, now, events, fed,
                       registered, eventManager>>

RT_RemoveBinding ==
    \E context \in Contexts, actionName \in ActionNames :
        /\ bindingMap.cacheVersion < MaxRoundTripVersion
        /\ MapHas(bindingMap.bindings, context)
        /\ bindingMap' = removeBinding(bindingMap, context, actionName, Null)
        /\ last' = [op |-> "removeBinding"]
        /\ UNCHANGED <<keyBuffer, comboTracker, managerVars, now, events, fed,
                       registered, eventManager>>

\* loadBindings(getBindings()); last keeps the map the call found
RT_RoundTrip ==
    /\ bindingMap.cacheVersion < MaxRoundTripVersion
    /\ \E exported \in {getBindings(bindingMap)} :
        /\ bindingMap' = loadBindings(bindingMap, exported)
        /\ last' = [op |-> "roundTrip", before |-> bindingMap]
        /\ UNCHANGED <<keyBuffer, comboTracker, managerVars, now, events, fed,
                       registered, eventManager>>

NextRoundTrip ==
    \/ RT_AddBinding
    \/ RT_RemoveBinding
    \/ RT_RoundTrip

SpecRoundTrip == InitBM /\ [][NextRoundTrip]_vars

ResolvedSet(bm, context, inputData) ==
    Range(NamesAndValues(ResolveActions(ContextMapOf(bm, context), inputData)))

\* C39 (round trip): loadBindings(getBindings()) leaves, for every context
\* and every input, the same set of resolved action names with the same
\* values as before.
C39_RoundTrip ==
    last.op = "roundTrip" =>
        \A context \in Contexts, inputData \in RoundTripInputs :
            ResolvedSet(bindingMap, context, inputData)
                = ResolvedSet(last.before, context, inputData)

----------------------------------------------------------------------------
(* Sensitivity and deadzone of a binding descriptor, checked under
   SpecAnalog *)

\* the field of a descriptor, or the default when the descriptor omits it
Given(binding, field, dflt) == IF Has(binding, field) THEN binding[field] ELSE dflt

\* the entry the last addBinding stored: the last one under its binding key
StoredEntry(bm, binding) ==
    LET entries == EntriesUnder(bm, "default",
                                generateBindingKey(normalizeBinding(binding)))
    IN entries[Len(entries)]

\* input value times sensitivity, then 0 if its magnitude is below the
\* deadzone
ScaledThenDeadzone(value, sensitivity, deadzone) ==
    LET scaled == (value * sensitivity) \div 100
    IN IF Abs(scaled) < deadzone THEN 0 ELSE scaled

\* C40: a descriptor given with an explicit sensitivity >= 0 or deadzone >= 0,
\* 0 included, keeps that value, the defaults 1.0 and 0.1 applying only to a
\* field that is omitted; and the value of a resolved action is the input
\* value times the sensitivity given, set to 0 if its magnitude is below the
\* deadzone given.
C40_ExplicitZeroKept ==
    [][last'.op = "addBinding" =>
            LET stored == StoredEntry(bindingMap', last'.binding)
            IN /\ stored.sensitivity =
                    Given(last'.binding, "sensitivity", DefaultSensitivity)
               /\ stored.deadzone =
                    Given(last'.binding, "deadzone", DefaultDeadzone)
               /\ \A inputData \in StickInputs :
                    createActionFromBinding(inputData, stored).value =
                        ScaledThenDeadzone(
                            inputData.value,
                            Given(last'.binding, "sensitivity", DefaultSensitivity),
                            Given(last'.binding, "deadzone", DefaultDeadzone))]_vars

====
